---- MODULE Spec2Model ----
(***************************************************************************)
(* Materna: the analytics dashboard (dashboard_methods.py, served by       *)
(* main.py's /dashboard_data) over the relational store of models.py.      *)
(*                                                                         *)
(* Representation                                                          *)
(*   - a Python float / JSON number is an exact rational <<n, d>> with     *)
(*     d > 0, in lowest terms wherever it is stored or returned; 0.0 is    *)
(*     <<0, 1>>;                                                           *)
(*   - Optional[T] is None == <<>> or Some(x) == <<x>>;                    *)
(*   - a dict is a function on the set of its keys whose values are        *)
(*     Optional (a JSON null is None);                                     *)
(*   - a datetime is an integer number of ticks since 2000-01-01 00:00, a  *)
(*     date an integer number of days since 2000-01-01;                    *)
(*   - a table is the sequence of its rows in rowid order, which is the    *)
(*     order an unordered select returns them in.                          *)
(***************************************************************************)
EXTENDS Integers, Sequences, FiniteSets, TLC

VARIABLES
    patients,   \* table Patient
    features,   \* table ModelFeatures
    labtests,   \* table LabTest
    studies,    \* table Study
    now,        \* the clock read by datetime.utcnow()
    window,     \* (start, end) of the request being served, or None
    payload     \* what the call being served returned, or None

vars == <<patients, features, labtests, studies, now, window, payload>>

store == <<patients, features, labtests, studies>>

-----------------------------------------------------------------------------
(* Bounds of the model.                                                    *)

MaxFeatures == 2       \* rows of ModelFeatures
MaxTests == 2          \* rows of LabTest
MaxPatients == 3       \* rows of Patient
MaxTicks == 1          \* ticks the clock advances
TicksPerDay == 2       \* clock resolution: ticks in one day
MantissaBits == 4      \* bits of a float's mantissa
MaxSeriesLen == 3      \* values in a series handed to _corr

-----------------------------------------------------------------------------
(* Optional values and dicts.                                              *)

None == <<>>

Some(x) == <<x>>

EmptyDict == [k \in {} |-> None]

\* d.get(k)
Get(d, k) == IF k \in DOMAIN d THEN d[k] ELSE None

\* d.get(k, default)
GetOr(d, k, default) == IF k \in DOMAIN d THEN d[k] ELSE default

\* (o or {}) for an Optional[dict]
OrEmptyDict(o) == IF o = None THEN EmptyDict ELSE o[1]

\* (o or []) for an Optional[list]
OrEmptyList(o) == IF o = None THEN <<>> ELSE o[1]

-----------------------------------------------------------------------------
(* Floats as exact rationals.                                              *)

Abs(i) == IF i < 0 THEN -i ELSE i

RECURSIVE GCD(_, _)
GCD(a, b) == IF b = 0 THEN a ELSE GCD(b, a % b)

\* the rational n/d (d # 0) in lowest terms with a positive denominator
Rat(n, d) ==
    LET g == GCD(Abs(n), Abs(d))
        s == IF d < 0 THEN -1 ELSE 1
    IN  <<(s * n) \div g, (s * d) \div g>>

Num(i) == <<i, 1>>

Zero == Num(0)

\* what a division by zero yields: the exception, as a value no float equals
ZeroDivisionError == <<0, 0>>

\* a + b, a - b, a * b: exact, and left unreduced; a quotient reduces
RAdd(a, b) ==
    IF a[2] = b[2] THEN <<a[1] + b[1], a[2]>>
    ELSE <<a[1] * b[2] + b[1] * a[2], a[2] * b[2]>>

RSub(a, b) ==
    IF a[2] = b[2] THEN <<a[1] - b[1], a[2]>>
    ELSE <<a[1] * b[2] - b[1] * a[2], a[2] * b[2]>>

RMul(a, b) == <<a[1] * b[1], a[2] * b[2]>>

\* a / b, in lowest terms
RDiv(a, b) == IF b[1] = 0 THEN ZeroDivisionError ELSE Rat(a[1] * b[2], a[2] * b[1])

\* the float x in lowest terms
Norm(x) == Rat(x[1], x[2])

RLt(a, b) == a[1] * b[2] < b[1] * a[2]

RLe(a, b) == a[1] * b[2] <= b[1] * a[2]

\* sum(xs) over a list of floats
RECURSIVE RSum(_)
RSum(xs) == IF xs = <<>> THEN Zero ELSE RAdd(RSum(SubSeq(xs, 1, Len(xs) - 1)), xs[Len(xs)])

\* float(v) of a stored JSON number (the stores considered hold no null where
\* the code calls float() on the bare value)
Float(o) == o[1]

\* float(o or 0.0): None and 0 both give 0.0
FloatOrZero(o) == IF o = None THEN Zero ELSE o[1]

\* the mean without the guard for no values
MeanOrZero_Unguarded(xs) == RDiv(RSum(xs), Num(Len(xs)))

\* (sum(xs) / len(xs)) if xs else 0.0
MeanOrZero(xs) == IF Len(xs) # 0 THEN RDiv(RSum(xs), Num(Len(xs))) ELSE Zero

-----------------------------------------------------------------------------
(* Lists.                                                                  *)

Range(s) == {s[i] : i \in DOMAIN s}

\* [f(x) for x in s]
Map(s, F(_)) == [i \in DOMAIN s |-> F(s[i])]

\* the sequences over S of length at most n
SeqUpTo(S, n) == UNION {[1..k -> S] : k \in 0..n}

\* sorted(S) for a set of integers
RECURSIVE Sorted(_)
Sorted(S) ==
    IF S = {} THEN <<>>
    ELSE LET m == CHOOSE x \in S : \A y \in S : x <= y
         IN  <<m>> \o Sorted(S \ {m})

-----------------------------------------------------------------------------
(* dashboard_methods.py: helpers.                                          *)

PCB_KEYS == <<"PCB_118", "PCB_138", "PCB_153", "PCB_180", "PCB_74",
              "PCB_99", "PCB_156", "PCB_170", "PCB_183", "PCB_187">>

\* datetime(2000, 1, 1)
Epoch == 0 * TicksPerDay

\* timedelta(days=n)
Days(n) == n * TicksPerDay

\* datetime.combine(d, datetime.min.time())
Midnight(d) == d * TicksPerDay

\* datetime.utcnow().date(), date.today()
DateOf(t) == t \div TicksPerDay

\* the range tokens requested; "year" is one the resolver does not know
RangeTokens == {"week", "month", "threemonths", "all", "year"}

\* the resolver taking an unknown token for "month"
get_range_bounds_NoFallback(range_str) ==
    IF range_str = "week" THEN <<now - Days(7), now>>
    ELSE IF range_str = "threemonths" THEN <<now - Days(90), now>>
    ELSE IF range_str = "all" THEN <<Epoch, now>>
    ELSE <<now - Days(30), now>>

get_range_bounds(range_str) ==
    IF range_str = "week" THEN <<now - Days(7), now>>
    ELSE IF range_str = "month" THEN <<now - Days(30), now>>
    ELSE IF range_str = "threemonths" THEN <<now - Days(90), now>>
    ELSE <<Epoch, now>>

\* str(...).upper() on the contaminant names the stores hold
Upper(s) ==
    CASE s = "pcb_118" -> "PCB_118"
      [] s = "pcb_138" -> "PCB_138"
      [] OTHER -> s

\* the position of patient pid's entry in the insertion-ordered dict by, or 0
IndexOfPatient(by, pid) ==
    IF \E i \in DOMAIN by : by[i].patient_id = pid
    THEN CHOOSE i \in DOMAIN by : by[i].patient_id = pid
    ELSE 0

\* the replacement test with every later row taken: the last row seen wins
LatestReplaces_Always(old, mf) == TRUE

\* the replacement test with <= for <: of equal timestamps the last wins
LatestReplaces_OrEqual(old, mf) == old.date <= mf.date

\* the replacement test of _latest_by_patient
LatestReplaces(old, mf) == old.date < mf.date

\* the dict patient_id -> ModelFeatures, as the list of its values in key
\* insertion order (every value carries its key, patient_id)
RECURSIVE LatestFold(_, _, _)
LatestFold(fs, i, by) ==
    IF i > Len(fs) THEN by
    ELSE LET mf == fs[i]
             j == IndexOfPatient(by, mf.patient_id)
         IN  IF j = 0 THEN LatestFold(fs, i + 1, Append(by, mf))
             ELSE IF LatestReplaces(by[j], mf)
                  THEN LatestFold(fs, i + 1, [by EXCEPT ![j] = mf])
                  ELSE LatestFold(fs, i + 1, by)

_latest_by_patient(fs) == LatestFold(fs, 1, <<>>)

\* the sum with a missing key counted as 1.0
TotalLoad_DefaultOne(mf) ==
    RSum([i \in DOMAIN PCB_KEYS |->
            Float(GetOr(OrEmptyDict(mf.output_predictions), PCB_KEYS[i], Some(Num(1))))])

\* sum(float((mf.output_predictions or {}).get(k, 0.0)) for k in PCB_KEYS)
TotalLoad(mf) ==
    RSum([i \in DOMAIN PCB_KEYS |->
            Float(GetOr(OrEmptyDict(mf.output_predictions), PCB_KEYS[i], Some(Zero)))])

\* round(x, 3): the nearest multiple of 1/1000, halves to the even one; an
\* exception raised while computing x is not caught
Round3(x) ==
    LET n == x[1] * 1000
        d == x[2]
        q == IF n >= 0 THEN n \div d ELSE -((-n) \div d) - (IF (-n) % d = 0 THEN 0 ELSE 1)
        r == n - q * d
        k == IF 2 * r > d THEN q + 1
             ELSE IF 2 * r < d THEN q
             ELSE IF q % 2 = 0 THEN q ELSE q + 1
    IN  IF x = ZeroDivisionError THEN x ELSE Rat(k, 1000)

-----------------------------------------------------------------------------
(* The queries of the aggregations.                                        *)

\* ModelFeatures.date >= start, ModelFeatures.date <= end
FeatureInWindow(mf, start, end) == mf.date >= start /\ mf.date <= end

\* select(ModelFeatures).where(ModelFeatures.date >= start, ModelFeatures.date <= end)
SelectFeatures(start, end) ==
    SelectSeq(features, LAMBDA mf : FeatureInWindow(mf, start, end))

\* every status in the place of ready and released
StatusEligible_Any(t) == TRUE

\* LabTest.status.in_(["ready", "released"])
StatusEligible(t) == t.status \in {"ready", "released"}

\* select(LabTest).where(LabTest.status.in_(["ready", "released"]))
SelectReadyTests == SelectSeq(labtests, StatusEligible)

\* t.result_date or t.collection_date, as a datetime
_test_date(t) ==
    IF t.result_date # None THEN Midnight(t.result_date[1])
    ELSE Midnight(t.collection_date)

\* start <= ts <= end
TestInWindow(ts, start, end) == start <= ts /\ ts <= end

-----------------------------------------------------------------------------
(* 1) Exposure and risk patterns.                                          *)

\* the concatenation of a list of lists
RECURSIVE Flatten(_)
Flatten(ss) == IF ss = <<>> THEN <<>> ELSE ss[1] \o Flatten(Tail(ss))

\* dt = t.result_date or t.collection_date, a date made a datetime
AvgTestDate(t) ==
    IF t.result_date # None THEN Midnight(t.result_date[1])
    ELSE Midnight(t.collection_date)

\* the tests fetch_avg_pcb_levels does not skip
AvgTests(start, end) ==
    SelectSeq(SelectReadyTests, LAMBDA t : TestInWindow(AvgTestDate(t), start, end))

\* row counts for contaminant k: name in ms and row.get("level") is not None
RowCounts(row, k) == Upper(row.name) = k /\ row.level # None

\* the levels added to ms[k], in the order they are added
MaternalLevels(k, start, end) ==
    Flatten(Map(AvgTests(start, end),
                LAMBDA t : Map(SelectSeq(OrEmptyList(t.pcb_results),
                                         LAMBDA row : RowCounts(row, k)),
                               LAMBDA row : Float(row.level))))

\* the snapshots whose predictions fetch_avg_pcb_levels averages
AvgFetalRows(start, end) == SelectFeatures(start, end)

\* the predictions added to fs[k], in the order they are added
FetalLevels(k, rows) ==
    Map(SelectSeq(rows, LAMBDA mf : Get(OrEmptyDict(mf.output_predictions), k) # None),
        LAMBDA mf : Float(Get(OrEmptyDict(mf.output_predictions), k)))

fetch_avg_pcb_levels(start, end) ==
    [labels |-> PCB_KEYS,
     maternal |-> [i \in DOMAIN PCB_KEYS |->
                      MeanOrZero(MaternalLevels(PCB_KEYS[i], start, end))],
     fetal |-> [i \in DOMAIN PCB_KEYS |->
                   MeanOrZero(FetalLevels(PCB_KEYS[i], AvgFetalRows(start, end)))]]

\* levels = [float(r.get("level") or 0.0) for r in (t.pcb_results or [])
\*           if r.get("level") is not None]
TestLevels(t) ==
    Map(SelectSeq(OrEmptyList(t.pcb_results), LAMBDA row : row.level # None),
        LAMBDA row : FloatOrZero(row.level))

\* the tests whose levels fetch_concentration_series reads
SeriesTests(start, end) ==
    SelectSeq(SelectReadyTests,
              LAMBDA t : TestInWindow(_test_date(t), start, end) /\ t.patient_id # 0)

\* mat_avgs after the loop over the tests ts: every test with levels assigns
\* its own mean to its patient's entry
RECURSIVE MatAvgs(_, _)
MatAvgs(ts, acc) ==
    IF ts = <<>> THEN acc
    ELSE LET t == ts[1]
             levels == TestLevels(t)
         IN  IF Len(levels) # 0
             THEN MatAvgs(Tail(ts),
                          [p \in DOMAIN acc \cup {t.patient_id} |->
                              IF p = t.patient_id
                              THEN RDiv(RSum(levels), Num(Len(levels)))
                              ELSE acc[p]])
             ELSE MatAvgs(Tail(ts), acc)

\* vals = [float(preds.get(k, 0) or 0.0) for k in PCB_KEYS]
PredVals(mf) ==
    [i \in DOMAIN PCB_KEYS |->
        FloatOrZero(GetOr(OrEmptyDict(mf.output_predictions), PCB_KEYS[i], Some(Zero)))]

\* v >= 0 in the place of v > 0
IsNonzero_OrZero(v) == RLe(Zero, v)

\* v > 0
IsNonzero(v) == RLt(Zero, v)

\* nonzero = [v for v in vals if v > 0]
NonzeroVals(mf) == SelectSeq(PredVals(mf), IsNonzero)

\* the rows the fetal averages of fetch_concentration_series are taken from
SeriesFetalRows(start, end) == _latest_by_patient(SelectFeatures(start, end))

\* fet_avgs: patient -> mean of the nonzero predictions, for rows that have any
FetAvgs(rows) ==
    LET have == {i \in DOMAIN rows : Len(NonzeroVals(rows[i])) # 0}
    IN  [p \in {rows[i].patient_id : i \in have} |->
            LET i == CHOOSE j \in have : rows[j].patient_id = p
            IN  RDiv(RSum(NonzeroVals(rows[i])), Num(Len(NonzeroVals(rows[i]))))]

\* set(mat_avgs) & set(fet_avgs)
CommonIds(mat, fet) == DOMAIN mat \cap DOMAIN fet

\* [avgs[pid] for pid in common_ids]
SeriesOf(avgs, common_ids) == [i \in DOMAIN common_ids |-> avgs[common_ids[i]]]

\* fetch_concentration_series with the fetal values in reverse order
FetalSeries_Reversed(fet_avgs, common_ids) ==
    [i \in DOMAIN common_ids |-> fet_avgs[common_ids[Len(common_ids) + 1 - i]]]

\* fetal_series = [fet_avgs[pid] for pid in common_ids]
FetalSeries(fet_avgs, common_ids) == SeriesOf(fet_avgs, common_ids)

fetch_concentration_series(start, end) ==
    LET mat_avgs == MatAvgs(SeriesTests(start, end), EmptyDict)
        fet_avgs == FetAvgs(SeriesFetalRows(start, end))
        common_ids == Sorted(CommonIds(mat_avgs, fet_avgs))
    IN  [labels |-> [i \in DOMAIN common_ids |-> <<"P", i>>],
         maternal_series |-> SeriesOf(mat_avgs, common_ids),
         fetal_series |-> FetalSeries(fet_avgs, common_ids)]

-----------------------------------------------------------------------------
(* 2) Demographic correlations, 3) environment and lifestyle: the point     *)
(* datasets.                                                               *)

\* {p.id: p for p in rows}.get(pid)
PatientGet(pid) ==
    IF \E i \in DOMAIN patients : patients[i].id = pid
    THEN Some(patients[CHOOSE i \in DOMAIN patients : patients[i].id = pid])
    ELSE None

\* not p or p.age is None
ScatterSkips(mf) ==
    PatientGet(mf.patient_id) = None \/ PatientGet(mf.patient_id)[1].age = None

\* the snapshots fetch_scatter_total_vs_age makes points of
ScatterRows(start, end) == _latest_by_patient(SelectFeatures(start, end))

fetch_scatter_total_vs_age(start, end) ==
    Map(SelectSeq(ScatterRows(start, end), LAMBDA mf : ~ScatterSkips(mf)),
        LAMBDA mf : [x |-> Num(PatientGet(mf.patient_id)[1].age[1]),
                     y |-> Round3(TotalLoad(mf))])

\* age is None
ClusterSkips(mf) == Get(mf.input_features, "Age") = None

\* the snapshots fetch_lifestyle_clusters makes points of
ClusterRows(start, end) == SelectFeatures(start, end)

fetch_lifestyle_clusters(start, end) ==
    Map(SelectSeq(ClusterRows(start, end), LAMBDA mf : ~ClusterSkips(mf)),
        LAMBDA mf : [x |-> Float(Get(mf.input_features, "Age")),
                     y |-> Round3(TotalLoad(mf))])

-----------------------------------------------------------------------------
(* Pearson correlation.  A coefficient num / (denx * deny) is kept exactly *)
(* as the pair [n |-> num, p |-> denx^2 * deny^2]; it only leaves the      *)
(* module rounded to three decimals.                                       *)

ZeroCorr == [n |-> Zero, p |-> Num(1)]

\* sum((x - mx) * (y - my) for x, y in zip(a, b))
CoMoment(a, b) ==
    LET mx == RDiv(RSum(a), Num(Len(a)))
        my == RDiv(RSum(b), Num(Len(b)))
    IN  Norm(RSum([i \in DOMAIN a |-> RMul(RSub(a[i], mx), RSub(b[i], my))]))

\* the guard `if denx and deny` and the quotient num / (denx * deny)
CorrQuotient(num, sxx, syy) ==
    IF sxx[1] # 0 /\ syy[1] # 0 THEN [n |-> num, p |-> Norm(RMul(sxx, syy))] ELSE ZeroCorr

\* the nested corr(a, b) of fetch_correlation_heatmap and
\* fetch_exposure_contribution
corr(a, b) ==
    IF Len(a) = 0 \/ Len(a) # Len(b) THEN ZeroCorr
    ELSE CorrQuotient(CoMoment(a, b), CoMoment(a, a), CoMoment(b, b))

\* abs(c)
CorrAbs(c) == [n |-> <<Abs(c.n[1]), c.n[2]>>, p |-> c.p]

\* floor(a * 10^6 / b) for 0 <= a, 0 < b, two digits at a time
Scaled6(a, b) ==
    LET r0 == a % b
        r1 == (r0 * 100) % b
        r2 == (r1 * 100) % b
    IN  (a \div b) * 1000000 + ((r0 * 100) \div b) * 10000
            + ((r1 * 100) \div b) * 100 + ((r2 * 100) \div b)

\* the largest k in lo..hi with k * k <= t
RECURSIVE ISqrt(_, _, _)
ISqrt(t, lo, hi) ==
    IF lo = hi THEN lo
    ELSE LET mid == (lo + hi + 1) \div 2
         IN  IF mid * mid <= t THEN ISqrt(t, mid, hi) ELSE ISqrt(t, lo, mid - 1)

\* round(c, 3) of a coefficient: |c| = sqrt(n^2 / p), rounded to the nearest
\* thousandth
RoundCorr3(c) ==
    LET sq == RDiv(Norm(RMul(c.n, c.n)), c.p)
        t4 == Scaled6(4 * sq[1], sq[2])
        h == ISqrt(t4, 0, 2001)
        k == (h + 1) \div 2
    IN  IF c.n[1] = 0 THEN Zero
        ELSE Rat((IF c.n[1] < 0 THEN -1 ELSE 1) * k, 1000)

-----------------------------------------------------------------------------
(* Binary floating point.  A float is a rational m * 2^e whose mantissa m  *)
(* has at most MantissaBits bits; every operation returns the exact result *)
(* rounded to the nearest float, halves to the even mantissa (CPython's    *)
(* float has 53 bits).  The exponent is not bounded.                       *)

\* n / d to the nearest integer, halves to the even one (n >= 0, d > 0)
RoundHalfEven(n, d) ==
    LET q == n \div d
        r == n % d
    IN  IF 2 * r > d \/ (2 * r = d /\ q % 2 = 1) THEN q + 1 ELSE q

\* the float nearest to n / d (n > 0, d > 0)
RECURSIVE FlPos(_, _)
FlPos(n, d) ==
    IF n >= 2^MantissaBits * d
    THEN LET r == FlPos(n, 2 * d) IN <<2 * r[1], r[2]>>
    ELSE IF n < 2^(MantissaBits - 1) * d
    THEN LET r == FlPos(2 * n, d) IN <<r[1], 2 * r[2]>>
    ELSE <<RoundHalfEven(n, d), 1>>

\* the float nearest to the rational x
Fl(x) ==
    LET y == Norm(x)
    IN  IF y[1] = 0 THEN Zero
        ELSE IF y[1] < 0 THEN LET r == FlPos(-y[1], y[2]) IN Rat(-r[1], r[2])
        ELSE Norm(FlPos(y[1], y[2]))

\* a - b, a * b, a / b on floats
FSub(a, b) == Fl(RSub(a, b))

FMul(a, b) == Fl(RMul(a, b))

FDiv(a, b) == IF b[1] = 0 THEN ZeroDivisionError ELSE Fl(RDiv(a, b))

\* sum(xs): the additions from left to right, each one rounded
RECURSIVE FSum(_)
FSum(xs) ==
    IF xs = <<>> THEN Zero
    ELSE Fl(RAdd(FSum(SubSeq(xs, 1, Len(xs) - 1)), xs[Len(xs)]))

\* the float nearest to sqrt(n / d) (n > 0, d > 0)
RECURSIVE SqrtPos(_, _)
SqrtPos(n, d) ==
    IF n >= 4^MantissaBits * d
    THEN LET r == SqrtPos(n, 4 * d) IN <<2 * r[1], r[2]>>
    ELSE IF n < 4^(MantissaBits - 1) * d
    THEN LET r == SqrtPos(4 * n, d) IN <<r[1], 2 * r[2]>>
    ELSE LET m == ISqrt(n \div d, 2^(MantissaBits - 1), 2^MantissaBits - 1)
             h == (2 * m + 1) * (2 * m + 1) * d
         IN  <<IF 4 * n > h \/ (4 * n = h /\ m % 2 = 1) THEN m + 1 ELSE m, 1>>

\* math.sqrt(x) for x >= 0
FSqrt(x) ==
    LET y == Norm(x)
    IN  IF y[1] = 0 THEN Zero ELSE Norm(SqrtPos(y[1], y[2]))

\* the helper with the deviations of ys taken from mean_x in num
_corr_OneMean(xs, ys) ==
    LET n == Len(xs)
        mean_x == FDiv(FSum(xs), Num(n))
        mean_y == FDiv(FSum(ys), Num(n))
        num == FSum([i \in DOMAIN xs |-> FMul(FSub(xs[i], mean_x), FSub(ys[i], mean_x))])
        den_x == FSqrt(FSum([i \in DOMAIN xs |->
                     FMul(FSub(xs[i], mean_x), FSub(xs[i], mean_x))]))
        den_y == FSqrt(FSum([i \in DOMAIN ys |->
                     FMul(FSub(ys[i], mean_y), FSub(ys[i], mean_y))]))
    IN  IF n = 0 \/ n # Len(ys) THEN Zero
        ELSE IF den_x = Zero \/ den_y = Zero THEN Zero
        ELSE FDiv(num, FMul(den_x, den_y))

\* _corr(xs, ys) on lists of floats
_corr(xs, ys) ==
    LET n == Len(xs)
        mean_x == FDiv(FSum(xs), Num(n))
        mean_y == FDiv(FSum(ys), Num(n))
        num == FSum([i \in DOMAIN xs |-> FMul(FSub(xs[i], mean_x), FSub(ys[i], mean_y))])
        den_x == FSqrt(FSum([i \in DOMAIN xs |->
                     FMul(FSub(xs[i], mean_x), FSub(xs[i], mean_x))]))
        den_y == FSqrt(FSum([i \in DOMAIN ys |->
                     FMul(FSub(ys[i], mean_y), FSub(ys[i], mean_y))]))
    IN  IF n = 0 \/ n # Len(ys) THEN Zero
        ELSE IF den_x = Zero \/ den_y = Zero THEN Zero
        ELSE FDiv(num, FMul(den_x, den_y))

-----------------------------------------------------------------------------
(* Summary metrics.                                                        *)

\* str(...).lower() on the risk labels the stores hold
Lower(s) ==
    CASE s = "High" -> "high"
      [] s = "HIGH" -> "high"
      [] OTHER -> s

\* the comparison without lower()
IsHighRisk_Exact(pid) ==
    /\ PatientGet(pid) # None
    /\ PatientGet(pid)[1].risk = Some("high")

\* patients.get(pid) and str(patients[pid].risk).lower() == "high"
IsHighRisk(pid) ==
    /\ PatientGet(pid) # None
    /\ PatientGet(pid)[1].risk # None
    /\ Lower(PatientGet(pid)[1].risk[1]) = "high"

\* the predictions of contaminant k summed into pcb_sum[k] and total
SummaryLevels(k, rows) == FetalLevels(k, rows)

\* total of one row: the sum of its predictions that are not None
SummaryTotal(mf) ==
    RSum(Flatten([i \in DOMAIN PCB_KEYS |-> FetalLevels(PCB_KEYS[i], <<mf>>)]))

\* the last key, in PCB_KEYS order, whose average no other exceeds
TopIndex_Last(avgs) ==
    CHOOSE i \in DOMAIN avgs :
        /\ \A j \in DOMAIN avgs : RLe(avgs[j], avgs[i])
        /\ \A j \in (i + 1)..Len(avgs) : RLt(avgs[j], avgs[i])

\* max(avgs.items(), key=lambda x: x[1])[0]: the first key, in PCB_KEYS order,
\* whose average no other exceeds
TopIndex(avgs) ==
    CHOOSE i \in DOMAIN avgs :
        /\ \A j \in DOMAIN avgs : RLe(avgs[j], avgs[i])
        /\ \A j \in 1..(i - 1) : RLt(avgs[j], avgs[i])

\* the rows whose maternal_PCB is not None
HasMaternalPCB(mf) == Get(mf.input_features, "maternal_PCB") # None

\* the inline correlation of fetch_summary, rounded
SummaryCorr(rows) ==
    LET sel == SelectSeq(rows, HasMaternalPCB)
        xs == Map(sel, LAMBDA mf : Float(Get(mf.input_features, "maternal_PCB")))
        ys == Map(sel, TotalLoad)
    IN  IF Len(xs) # 0 /\ Len(ys) # 0
        THEN RoundCorr3(CorrQuotient(CoMoment(xs, ys), CoMoment(xs, xs), CoMoment(ys, ys)))
        ELSE Zero

fetch_summary(start, end) ==
    LET rows == _latest_by_patient(SelectFeatures(start, end))
        avgs == [i \in DOMAIN PCB_KEYS |-> MeanOrZero(SummaryLevels(PCB_KEYS[i], rows))]
        top == TopIndex(avgs)
        fetal_totals == Map(rows, SummaryTotal)
    IN  [total_patients |-> Len(rows),
         high_risk |-> Cardinality({i \in DOMAIN rows : IsHighRisk(rows[i].patient_id)}),
         top_pcb |-> PCB_KEYS[top],
         top_pcb_avg |-> Round3(avgs[top]),
         avg_fetal_pcb |-> Round3(MeanOrZero(fetal_totals)),
         correlation |-> SummaryCorr(rows)]

-----------------------------------------------------------------------------
(* Risk distribution.                                                      *)

\* the thresholds taken inclusively: v <= 2.0, v <= 4.0
_risk_from_value_Inclusive(v) ==
    IF RLe(v, Num(2)) THEN "low"
    ELSE IF RLe(v, Num(4)) THEN "medium"
    ELSE "high"

_risk_from_value(v) ==
    IF RLt(v, Num(2)) THEN "low"
    ELSE IF RLt(v, Num(4)) THEN "medium"
    ELSE "high"

\* the risk label of contaminant k in one snapshot
RiskOf(mf, k) ==
    _risk_from_value(Float(GetOr(OrEmptyDict(mf.output_predictions), k, Some(Zero))))

\* the count taken over the latest snapshot of each patient only
RiskCount_Latest(rows, k, r) ==
    Cardinality({i \in DOMAIN _latest_by_patient(rows) :
                    RiskOf(_latest_by_patient(rows)[i], k) = r})

\* the number of rows labelled r for contaminant k
RiskCount(rows, k, r) == Cardinality({i \in DOMAIN rows : RiskOf(rows[i], k) = r})

fetch_risk_distribution_by_pcb(start, end) ==
    LET rows == SelectFeatures(start, end)
    IN  [labels |-> PCB_KEYS,
         risk_low |-> [i \in DOMAIN PCB_KEYS |-> RiskCount(rows, PCB_KEYS[i], "low")],
         risk_med |-> [i \in DOMAIN PCB_KEYS |-> RiskCount(rows, PCB_KEYS[i], "medium")],
         risk_high |-> [i \in DOMAIN PCB_KEYS |-> RiskCount(rows, PCB_KEYS[i], "high")]]

-----------------------------------------------------------------------------
(* Grouped averages.                                                       *)

AgeLabels == <<"<25", "25-30", "31-35", "36-40", "41+">>

\* the chain with the upper boundaries left out of their bands
AgeBand_Exclusive(a) ==
    IF a < 25 THEN "<25"
    ELSE IF a < 30 THEN "25-30"
    ELSE IF a < 35 THEN "31-35"
    ELSE IF a < 40 THEN "36-40"
    ELSE "41+"

\* the if/elif chain on a = p.age
AgeBand(a) ==
    IF a < 25 THEN "<25"
    ELSE IF a <= 30 THEN "25-30"
    ELSE IF a <= 35 THEN "31-35"
    ELSE IF a <= 40 THEN "36-40"
    ELSE "41+"

\* the totals appended to the bucket `label`, in order
GroupTotals(rows, label, LabelOf(_)) ==
    Map(SelectSeq(rows, LAMBDA mf : LabelOf(mf) = label), TotalLoad)

fetch_age_groups_avg(start, end) ==
    LET mfs == _latest_by_patient(SelectFeatures(start, end))
        rows == SelectSeq(mfs, LAMBDA mf : ~ScatterSkips(mf))
    IN  IF Len(mfs) = 0
        THEN [labels |-> AgeLabels, values |-> [i \in DOMAIN AgeLabels |-> Num(0)]]
        ELSE [labels |-> AgeLabels,
              values |-> [i \in DOMAIN AgeLabels |->
                  MeanOrZero(GroupTotals(rows, AgeLabels[i],
                      LAMBDA mf : AgeBand(PatientGet(mf.patient_id)[1].age[1])))]]

BmiLabels == <<"Underweight", "Normal", "Overweight">>

\* the thresholds taken inclusively: bmi <= 18.5, bmi <= 25
_bmi3_Inclusive(bmi) ==
    IF RLe(bmi, Rat(37, 2)) THEN "Underweight"
    ELSE IF RLe(bmi, Num(25)) THEN "Normal"
    ELSE "Overweight"

\* _bmi3 of a BMI that is not None; 18.5 is 37/2
_bmi3(bmi) ==
    IF RLt(bmi, Rat(37, 2)) THEN "Underweight"
    ELSE IF RLt(bmi, Num(25)) THEN "Normal"
    ELSE "Overweight"

\* label is None for a snapshot without BMI, which is skipped
HasBmi(mf) == Get(mf.input_features, "BMI") # None

fetch_pcb_by_bmi(start, end) ==
    LET rows == SelectSeq(SelectFeatures(start, end), HasBmi)
    IN  [labels |-> BmiLabels,
         values |-> [i \in DOMAIN BmiLabels |->
             MeanOrZero(GroupTotals(rows, BmiLabels[i],
                 LAMBDA mf : _bmi3(Float(Get(mf.input_features, "BMI")))))]]

\* int(x) of a number: truncation toward zero
IntOf(x) == IF x[1] >= 0 THEN x[1] \div x[2] ELSE -((-x[1]) \div x[2])

\* int(feats.get("Smoking", 0)) == 1
IsSmoker(mf) == IntOf(Float(GetOr(mf.input_features, "Smoking", Some(Zero)))) = 1

fetch_smoking_comparison(start, end) ==
    LET rows == SelectFeatures(start, end)
        smokers == Map(SelectSeq(rows, IsSmoker), TotalLoad)
        nons == Map(SelectSeq(rows, LAMBDA mf : ~IsSmoker(mf)), TotalLoad)
    IN  [labels |-> <<"Non-smokers", "Smokers">>,
         values |-> <<MeanOrZero(nons), MeanOrZero(smokers)>>]

\* the daily doses alone, without the fallback to the sum of dairy products
Dairy_DailyOnly(mf) ==
    FloatOrZero(GetOr(mf.input_features, "Daily dairy doses", Some(Zero)))

\* float(feats.get("Daily dairy doses", feats.get("Sum of dairy products", 0.0)) or 0.0)
Dairy(mf) ==
    FloatOrZero(GetOr(mf.input_features, "Daily dairy doses",
                      GetOr(mf.input_features, "Sum of dairy products", Some(Zero))))

DairyLabels == <<"Low dairy", "Medium dairy", "High dairy">>

DairyBin(d) ==
    IF RLt(d, Num(1)) THEN "Low dairy"
    ELSE IF RLt(d, Num(2)) THEN "Medium dairy"
    ELSE "High dairy"

fetch_dietary_patterns(start, end) ==
    LET rows == SelectFeatures(start, end)
    IN  [labels |-> DairyLabels,
         values |-> [i \in DOMAIN DairyLabels |->
             Round3(MeanOrZero(GroupTotals(rows, DairyLabels[i],
                                           LAMBDA mf : DairyBin(Dairy(mf)))))]]

-----------------------------------------------------------------------------
(* Correlation heatmap, exposure contribution, related research.           *)

HeatmapVars == <<"Diet", "Smoking", "BMI", "Age", "mPCB">>

\* float(feats.get(key, 0.0) or 0.0)
FeatureOrZero(mf, key) == FloatOrZero(GetOr(mf.input_features, key, Some(Zero)))

\* the value appended to series[v] for one snapshot
HeatmapValue(mf, v) ==
    CASE v = "Diet" -> Dairy(mf)
      [] v = "Smoking" -> FeatureOrZero(mf, "Smoking")
      [] v = "BMI" -> FeatureOrZero(mf, "BMI")
      [] v = "Age" -> FeatureOrZero(mf, "Age")
      [] v = "mPCB" -> FeatureOrZero(mf, "maternal_PCB")

fetch_correlation_heatmap(start, end) ==
    LET rows == SelectFeatures(start, end)
        series == [i \in DOMAIN HeatmapVars |->
                      Map(rows, LAMBDA mf : HeatmapValue(mf, HeatmapVars[i]))]
    IN  [labels |-> HeatmapVars,
         matrix |-> [r \in DOMAIN HeatmapVars |-> [c \in DOMAIN HeatmapVars |->
                        RoundCorr3(corr(series[r], series[c]))]]]

ExposureCats == <<"Chemical exposure", "Coffee", "Tea", "BMI", "Smoking",
                  "Maternal Education">>

\* the feature key read for each category
ExposureKey(cat) ==
    CASE cat = "Coffee" -> "Cups of coffee"
      [] cat = "Tea" -> "Cups of tea"
      [] OTHER -> cat

fetch_exposure_contribution(start, end) ==
    LET rows == SelectFeatures(start, end)
        totals == Map(rows, TotalLoad)
    IN  [labels |-> ExposureCats,
         values |-> [i \in DOMAIN ExposureCats |->
             RoundCorr3(CorrAbs(corr(
                 Map(rows, LAMBDA mf : FeatureOrZero(mf, ExposureKey(ExposureCats[i]))),
                 totals)))]]

\* a study's year as a sort key: NULL sorts below every year
YearKey(st) == IF st.year = None THEN -1 ELSE st.year[1]

\* order_by(Study.year.desc()): rows of equal year stay in rowid order
RECURSIVE ByYearDesc(_)
ByYearDesc(rows) ==
    IF rows = <<>> THEN <<>>
    ELSE LET i == CHOOSE j \in DOMAIN rows :
                      /\ \A k \in DOMAIN rows : YearKey(rows[k]) <= YearKey(rows[j])
                      /\ \A k \in 1..(j - 1) : YearKey(rows[k]) < YearKey(rows[j])
         IN  <<rows[i]>> \o ByYearDesc(SubSeq(rows, 1, i - 1) \o SubSeq(rows, i + 1, Len(rows)))

\* .limit(limit)
Limit(rows, limit) == SubSeq(rows, 1, IF Len(rows) < limit THEN Len(rows) ELSE limit)

fetch_related_research(limit) ==
    Map(Limit(ByYearDesc(studies), limit),
        LAMBDA st : [title |-> st.title, link |-> st.link, year |-> st.year,
                     authors |-> st.authors])

-----------------------------------------------------------------------------
(* main.py: GET /dashboard_data.                                           *)

DashboardPayload(start, end) ==
    [summary |-> fetch_summary(start, end),
     avg_pcb_levels |-> fetch_avg_pcb_levels(start, end),
     risk_distribution |-> fetch_risk_distribution_by_pcb(start, end),
     concentration_series |-> fetch_concentration_series(start, end),
     demographics |->
        [pcb_by_age |-> fetch_age_groups_avg(start, end),
         scatter_total_vs_age |-> fetch_scatter_total_vs_age(start, end),
         pcb_by_bmi |-> fetch_pcb_by_bmi(start, end),
         smoking_comparison |-> fetch_smoking_comparison(start, end),
         correlation_heatmap |-> fetch_correlation_heatmap(start, end)],
     environment |->
        [exposure_contribution |-> fetch_exposure_contribution(start, end),
         dietary_patterns |-> fetch_dietary_patterns(start, end),
         lifestyle_clusters |-> fetch_lifestyle_clusters(start, end)],
     research |-> fetch_related_research(8)]

\* no request is being served: a request is handled to its end, and its
\* response delivered, before the next one is taken
Idle == payload = None

\* a call that deletes the studies it has read
Returns_Consuming(fn, range, out) ==
    /\ Idle
    /\ window' = Some(get_range_bounds(range))
    /\ payload' = Some([fn |-> fn, out |-> out])
    /\ studies' = <<>>
    /\ UNCHANGED <<patients, features, labtests, now>>

\* a call of the function fn with the window of the range token: what it
\* returned is kept until the response is delivered
Returns(fn, range, out) ==
    /\ Idle
    /\ window' = Some(get_range_bounds(range))
    /\ payload' = Some([fn |-> fn, out |-> out])
    /\ UNCHANGED <<store, now>>

\* the window of a range token
Start(range) == get_range_bounds(range)[1]

End(range) == get_range_bounds(range)[2]

get_dashboard_data(range) ==
    Returns("get_dashboard_data", range, DashboardPayload(Start(range), End(range)))

\* the calls get_dashboard_data makes, one by one
call_get_range_bounds(range) ==
    /\ Idle
    /\ payload' = Some([fn |-> "get_range_bounds", args |-> <<range>>,
                        out |-> get_range_bounds(range)])
    /\ UNCHANGED <<store, now, window>>

call_latest_by_patient(range) ==
    Returns("_latest_by_patient", range,
            _latest_by_patient(SelectFeatures(Start(range), End(range))))

call_fetch_avg_pcb_levels(range) ==
    Returns("fetch_avg_pcb_levels", range,
            fetch_avg_pcb_levels(Start(range), End(range)))

call_fetch_concentration_series(range) ==
    Returns("fetch_concentration_series", range,
            fetch_concentration_series(Start(range), End(range)))

call_fetch_scatter_total_vs_age(range) ==
    Returns("fetch_scatter_total_vs_age", range,
            fetch_scatter_total_vs_age(Start(range), End(range)))

call_fetch_lifestyle_clusters(range) ==
    Returns("fetch_lifestyle_clusters", range,
            fetch_lifestyle_clusters(Start(range), End(range)))

call_fetch_summary(range) ==
    Returns("fetch_summary", range, fetch_summary(Start(range), End(range)))

call_fetch_risk_distribution_by_pcb(range) ==
    Returns("fetch_risk_distribution_by_pcb", range,
            fetch_risk_distribution_by_pcb(Start(range), End(range)))

call_fetch_age_groups_avg(range) ==
    Returns("fetch_age_groups_avg", range,
            fetch_age_groups_avg(Start(range), End(range)))

call_fetch_pcb_by_bmi(range) ==
    Returns("fetch_pcb_by_bmi", range, fetch_pcb_by_bmi(Start(range), End(range)))

call_fetch_smoking_comparison(range) ==
    Returns("fetch_smoking_comparison", range,
            fetch_smoking_comparison(Start(range), End(range)))

call_fetch_dietary_patterns(range) ==
    Returns("fetch_dietary_patterns", range,
            fetch_dietary_patterns(Start(range), End(range)))

call_fetch_correlation_heatmap(range) ==
    Returns("fetch_correlation_heatmap", range,
            fetch_correlation_heatmap(Start(range), End(range)))

call_fetch_exposure_contribution(range) ==
    Returns("fetch_exposure_contribution", range,
            fetch_exposure_contribution(Start(range), End(range)))

\* a call _corr(xs, ys): the arguments are kept beside what it returned
call__corr(xs, ys) ==
    /\ Idle
    /\ payload' = Some([fn |-> "_corr", args |-> <<xs, ys>>, out |-> _corr(xs, ys)])
    /\ UNCHANGED <<store, now, window>>

\* the response is delivered and the request's locals are dropped
Respond ==
    /\ ~Idle
    /\ window' = None
    /\ payload' = None
    /\ UNCHANGED <<store, now>>

-----------------------------------------------------------------------------
(* insert_db_methods.py: patient registration.                             *)

\* the features dict main.py builds from the registration form, restricted to
\* the keys the analytics read; maternal_PCB is always None
RegistrationFeatures(age) ==
    [k \in {"Age", "BMI", "Smoking", "Daily dairy doses", "Sum of dairy products",
            "Cups of coffee", "Cups of tea", "Chemical exposure",
            "Maternal Education", "maternal_PCB"} |->
        CASE k = "Age" -> Some(Num(age))
          [] k = "BMI" -> Some(Num(25))
          [] k = "Smoking" -> Some(Num(1))
          [] k = "maternal_PCB" -> None
          [] OTHER -> Some(Num(2))]

\* the ages entered in the registration form
RegAges == {24, 31}

\* the rest of the form, by the age entered: weeks of gestation, due date,
\* and the box that marks the record complete
RegForm(age) ==
    [gestational_age |-> age - 10,
     due_date |-> DateOf(now) + 7 * (50 - age),
     is_complete |-> IF age = 24 THEN "on" ELSE "off"]

insert_new_patient(age) ==
    /\ Idle
    /\ Len(patients) < MaxPatients
    /\ Len(features) < MaxFeatures
    /\ patients' = Append(patients,
           [id |-> Len(patients) + 1, age |-> Some(age), risk |-> None,
            gestational_age |-> Some(RegForm(age).gestational_age),
            due_date |-> Some(RegForm(age).due_date),
            is_complete |-> RegForm(age).is_complete = "on",
            notes |-> None])
    /\ features' = Append(features,
           [id |-> Len(features) + 1,
            patient_id |-> Len(patients) + 1,
            date |-> now,
            input_features |-> RegistrationFeatures(age),
            output_predictions |-> None])
    /\ UNCHANGED <<labtests, studies, now, window, payload>>

\* the instant the service is started at: midnight of day 100
Now0 == Days(100)

\* time passes
Tick ==
    /\ Idle
    /\ now < Now0 + MaxTicks
    /\ now' = now + 1
    /\ UNCHANGED <<store, window, payload>>

-----------------------------------------------------------------------------
(* The stores the service starts on: materna.db as it is found, either     *)
(* empty (init_db has just created the tables) or holding rows written     *)
(* earlier.                                                                *)

SeedPatients ==
    <<[id |-> 1, age |-> Some(30), risk |-> Some("High")],
      [id |-> 2, age |-> None, risk |-> Some("low")]>>

SeedStudies ==
    <<[title |-> "s1", link |-> "l1", year |-> Some(2019), authors |-> Some("a1")],
      [title |-> "s2", link |-> "l2", year |-> Some(2021), authors |-> None]>>

\* snapshot contents: (input_features, output_predictions)
KindA ==
    [f |-> ("Age" :> Some(Num(30))) @@ ("BMI" :> Some(Num(22))) @@
           ("Smoking" :> Some(Num(1))) @@ ("maternal_PCB" :> Some(Num(3))) @@
           ("Daily dairy doses" :> Some(Num(1))),
     o |-> Some(("PCB_118" :> Some(Num(2))) @@ ("PCB_74" :> Some(Num(1))))]

KindB ==
    [f |-> ("BMI" :> Some(Rat(37, 2))) @@ ("Smoking" :> Some(Num(5))) @@
           ("maternal_PCB" :> Some(Num(5))),
     o |-> Some(("PCB_118" :> Some(Num(4))) @@ ("PCB_138" :> Some(Num(0))))]

KindZ ==
    [f |-> ("Age" :> Some(Num(41))) @@ ("maternal_PCB" :> None),
     o |-> Some(("PCB_118" :> Some(Num(0))))]

SeedKinds == {KindA, KindB, KindZ}

SeedDates == {Now0 - Days(7), Now0}

SeedFeatureRows ==
    {[patient_id |-> p, date |-> d, input_features |-> k.f, output_predictions |-> k.o] :
        p \in {1, 2}, d \in SeedDates, k \in SeedKinds}

\* lab test contents: (status, pcb_results, is_released)
ResultsA ==
    <<[name |-> "PCB_118", level |-> Some(Num(2))],
      [name |-> "pcb_138", level |-> None]>>

ResultsB ==
    <<[name |-> "PCB_118", level |-> Some(Num(4))],
      [name |-> "PCB_74", level |-> Some(Num(1))]>>

ResultsC == <<[name |-> "PCB_118", level |-> Some(Num(6))]>>

SeedTestKinds ==
    {[status |-> "pending", pcb_results |-> Some(ResultsC), is_released |-> FALSE],
     [status |-> "ready", pcb_results |-> Some(ResultsA), is_released |-> FALSE],
     [status |-> "released", pcb_results |-> Some(ResultsB), is_released |-> TRUE]}

\* lab test dates: (collection_date, result_date)
SeedTestDates ==
    {[c |-> DateOf(Now0) - 7, r |-> None],
     [c |-> DateOf(Now0) - 30, r |-> Some(DateOf(Now0))]}

\* patient 1 has tests of every kind and date, patient 2 tests without a
\* result date
SeedTestRows ==
    {[patient_id |-> x[1], status |-> x[2].status, collection_date |-> x[3].c,
      result_date |-> x[3].r, pcb_results |-> x[2].pcb_results,
      is_released |-> x[2].is_released, risk |-> Some("medium"), severity |-> None] :
        x \in {y \in {1, 2} \X SeedTestKinds \X SeedTestDates :
                  y[1] = 1 \/ y[3].r = None}}

\* the rows numbered by their primary key
WithIds(rows) == [i \in DOMAIN rows |-> [id |-> i] @@ rows[i]]

FeatureRow(p, d, k) ==
    [patient_id |-> p, date |-> d, input_features |-> k.f, output_predictions |-> k.o]

TestRow(p, status, c, r, results) ==
    [patient_id |-> p, status |-> status, collection_date |-> c, result_date |-> r,
     pcb_results |-> results, is_released |-> status = "released",
     risk |-> Some("medium"), severity |-> None]

\* a few lab test tables, for runs that vary the snapshots
FewTestTables ==
    {<<>>,
     <<TestRow(1, "released", DateOf(Now0) - 7, None, Some(ResultsB)),
       TestRow(2, "pending", DateOf(Now0) - 7, None, None)>>,
     <<TestRow(1, "ready", DateOf(Now0) - 30, Some(DateOf(Now0)), Some(ResultsA)),
       TestRow(2, "released", DateOf(Now0) - 7, None, Some(ResultsB))>>}

\* a few snapshot tables, for runs that vary the lab tests
FewFeatureTables ==
    {<<>>,
     <<FeatureRow(1, Now0 - Days(7), KindB), FeatureRow(2, Now0, KindZ)>>,
     <<FeatureRow(1, Now0 - Days(7), KindA), FeatureRow(2, Now0 - Days(7), KindB)>>}

EmptyDB ==
    /\ patients = <<>>
    /\ features = <<>>
    /\ labtests = <<>>
    /\ studies = <<>>

SeededDB(FeatureTables, TestTables, StudyTables) ==
    /\ patients = SeedPatients
    /\ studies \in StudyTables
    /\ features \in {WithIds(fs) : fs \in FeatureTables}
    /\ labtests \in {WithIds(ts) : ts \in TestTables}

InitWith(FeatureTables, TestTables, StudyTables) ==
    /\ EmptyDB \/ SeededDB(FeatureTables, TestTables, StudyTables)
    /\ now = Now0
    /\ window = None
    /\ payload = None

\* the operations on the store, and time
Environment ==
    \/ Respond
    \/ \E age \in RegAges : insert_new_patient(age)
    \/ Tick

\* the aggregations of the exposure and point datasets
Calls ==
    \/ \E range \in RangeTokens : call_latest_by_patient(range)
    \/ \E range \in RangeTokens : call_fetch_avg_pcb_levels(range)
    \/ \E range \in RangeTokens : call_fetch_concentration_series(range)
    \/ \E range \in RangeTokens : call_fetch_scatter_total_vs_age(range)
    \/ \E range \in RangeTokens : call_fetch_lifestyle_clusters(range)

\* snapshots varied
Init == InitWith(SeqUpTo(SeedFeatureRows, MaxFeatures), FewTestTables, {SeedStudies})

Next == Calls \/ Environment

Spec == Init /\ [][Next]_vars

\* lab tests varied
InitLab == InitWith(FewFeatureTables, SeqUpTo(SeedTestRows, MaxTests), {SeedStudies})

SpecLab == InitLab /\ [][Next]_vars

\* the whole dashboard request, on a few stores
InitDash == InitWith(FewFeatureTables, FewTestTables, {<<>>, SeedStudies})

NextDash ==
    \/ \E range \in RangeTokens : call_get_range_bounds(range)
    \/ \E range \in RangeTokens : get_dashboard_data(range)
    \/ Environment

SpecDash == InitDash /\ [][NextDash]_vars

\* snapshot contents at the thresholds of the classifications
KindC ==
    [f |-> ("Age" :> Some(Num(25))) @@ ("BMI" :> Some(Num(25))) @@
           ("Smoking" :> Some(Num(0))) @@ ("Sum of dairy products" :> Some(Num(2))),
     o |-> Some(("PCB_118" :> Some(Num(4))) @@ ("PCB_138" :> Some(Num(5))) @@
                ("PCB_74" :> Some(Num(5))))]

KindD ==
    [f |-> ("BMI" :> Some(Num(18))) @@ ("maternal_PCB" :> Some(Num(1))),
     o |-> Some(("PCB_118" :> Some(Num(2))) @@ ("PCB_74" :> Some(Num(3))) @@
                ("PCB_99" :> Some(Rat(1, 16))))]

\* the snapshots of the runs that vary the classified values
StatFeatureRows ==
    {FeatureRow(1, Now0, k) : k \in {KindA, KindB, KindC, KindZ}}
        \cup {FeatureRow(1, Now0 - Days(7), KindA)}
        \cup {FeatureRow(2, Now0, k) : k \in {KindC, KindD}}

\* the ages below the boundaries of the five bands
StatAges == {24, 35, 40}

\* the patient tables of these runs: ages on both sides of a boundary, risk
\* labels in several cases, a patient without age, a patient without label
StatPatientTables ==
    {<<[id |-> 1, age |-> Some(a), risk |-> Some("High")],
       [id |-> 2, age |-> Some(a + 1), risk |-> Some("low")]>> : a \in StatAges}
        \cup {<<[id |-> 1, age |-> Some(30), risk |-> Some("high")],
                [id |-> 2, age |-> Some(31), risk |-> Some("HIGH")]>>,
              <<[id |-> 1, age |-> Some(36), risk |-> None],
                [id |-> 2, age |-> None, risk |-> Some("medium")]>>}

InitStats ==
    /\ \/ EmptyDB
       \/ /\ patients \in StatPatientTables
          /\ features \in {WithIds(fs) : fs \in SeqUpTo(StatFeatureRows, MaxFeatures)}
          /\ labtests = <<>>
          /\ studies = SeedStudies
    /\ now = Now0
    /\ window = None
    /\ payload = None

\* the aggregations over the snapshots alone
StatCalls ==
    \/ \E range \in RangeTokens : call_fetch_summary(range)
    \/ \E range \in RangeTokens : call_fetch_risk_distribution_by_pcb(range)
    \/ \E range \in RangeTokens : call_fetch_age_groups_avg(range)
    \/ \E range \in RangeTokens : call_fetch_pcb_by_bmi(range)
    \/ \E range \in RangeTokens : call_fetch_smoking_comparison(range)
    \/ \E range \in RangeTokens : call_fetch_dietary_patterns(range)
    \/ \E range \in RangeTokens : call_fetch_scatter_total_vs_age(range)
    \/ \E range \in RangeTokens : call_fetch_lifestyle_clusters(range)

NextStats == StatCalls \/ Environment

\* the classified values varied
SpecStats == InitStats /\ [][NextStats]_vars

\* the values of the series: 1 and the largest even float below
\* 2^MantissaBits, whose threefold sum is not a float
FloatValues == {Num(1), Num(2^MantissaBits - 2)}

\* the series handed to _corr
Series == SeqUpTo(FloatValues, MaxSeriesLen)

\* the snapshots of the runs of the correlations
CorrFeatureTables ==
    {<<FeatureRow(1, Now0, KindA)>>,
     <<FeatureRow(1, Now0 - Days(7), KindA), FeatureRow(2, Now0, KindB)>>,
     <<FeatureRow(1, Now0, KindC), FeatureRow(2, Now0, KindA)>>,
     <<FeatureRow(1, Now0, KindB), FeatureRow(2, Now0, KindB)>>}

InitCorr ==
    /\ \/ EmptyDB
       \/ /\ patients = SeedPatients
          /\ features \in {WithIds(fs) : fs \in CorrFeatureTables}
          /\ labtests = <<>>
          /\ studies = SeedStudies
    /\ now = Now0
    /\ window = None
    /\ payload = None

CorrCalls ==
    \/ \E xs \in Series, ys \in Series : call__corr(xs, ys)
    \/ \E range \in RangeTokens : call_fetch_correlation_heatmap(range)
    \/ \E range \in RangeTokens : call_fetch_exposure_contribution(range)
    \/ \E range \in RangeTokens : call_fetch_summary(range)

NextCorr == CorrCalls \/ Environment

\* the series of the correlations varied
SpecCorr == InitCorr /\ [][NextCorr]_vars

-----------------------------------------------------------------------------
(* insert_db_methods.py: the lab test workflow.                            *)

\* a write to the store: what it returned is kept until the response is
\* delivered
Wrote(fn, args, out) ==
    /\ window' = None
    /\ payload' = Some([fn |-> fn, args |-> args, out |-> out])

\* db.query(LabTest).filter(LabTest.id == labtest_id).first()
LabTestGet(labtest_id) ==
    IF labtest_id \in DOMAIN labtests THEN Some(labtests[labtest_id]) ELSE None

\* the physicians ordering tests, the severities they enter
Physicians == {7, 8}

Severities == {"high"}

\* LabTest(...): pcb_result is not a column, so pcb_results keeps its
\* default None
insert_new_labtest_request(patient_id, physician_id, severity) ==
    /\ Idle
    /\ IF PatientGet(patient_id) = None
       THEN /\ Wrote("insert_new_labtest_request", <<patient_id>>, 404)
            /\ UNCHANGED <<store, now>>
       ELSE /\ Len(labtests) < MaxTests
            /\ labtests' = Append(labtests,
                   [id |-> Len(labtests) + 1,
                    patient_id |-> patient_id,
                    physician_id |-> physician_id,
                    status |-> "pending",
                    collection_date |-> DateOf(now),
                    result_date |-> None,
                    pcb_results |-> None,
                    is_released |-> FALSE,
                    risk |-> Some("medium"),
                    severity |-> Some(severity)])
            /\ Wrote("insert_new_labtest_request", <<patient_id>>, 200)
            /\ UNCHANGED <<patients, features, studies, now>>

pcb_names == <<"PCB_74", "PCB_99", "PCB_118", "PCB_138", "PCB_153",
               "PCB_156", "PCB_170", "PCB_180", "PCB_183", "PCB_187">>

\* the levels the machine draws: round(random.uniform(0.5, 4.0), 2), here
\* the same level for the ten contaminants
MachineLevels == {Num(1), Num(2), Num(3)}

MachineResults ==
    {[i \in DOMAIN pcb_names |-> [name |-> pcb_names[i], level |-> Some(l)]] :
        l \in MachineLevels}

\* sum(item["level"] for item in pcb_results)
total_pcb(pcb_results) ==
    RSum([i \in DOMAIN pcb_results |-> pcb_results[i].level[1]])

\* risk = severity = ...
MachineRisk(pcb_results) ==
    IF RLt(total_pcb(pcb_results), Num(15)) THEN "low"
    ELSE IF RLt(total_pcb(pcb_results), Num(25)) THEN "medium"
    ELSE "high"

\* the fields dispatch_lab_test updates
Dispatched(t, pcb_results) ==
    [t EXCEPT !.pcb_results = Some(pcb_results),
              !.status = "released",
              !.is_released = FALSE,
              !.severity = Some(MachineRisk(pcb_results)),
              !.risk = Some(MachineRisk(pcb_results)),
              !.result_date = Some(DateOf(now))]

\* the test skipped as already processed
AlreadyProcessed(t) == t.is_released

dispatch_lab_test(labtest_id, pcb_results) ==
    /\ Idle
    /\ IF LabTestGet(labtest_id) = None
       THEN /\ Wrote("dispatch_lab_test", <<labtest_id>>, FALSE)
            /\ UNCHANGED <<store, now>>
       ELSE IF AlreadyProcessed(labtests[labtest_id])
       THEN /\ Wrote("dispatch_lab_test", <<labtest_id>>, TRUE)
            /\ UNCHANGED <<store, now>>
       ELSE /\ labtests' = [labtests EXCEPT ![labtest_id] = Dispatched(@, pcb_results)]
            /\ Wrote("dispatch_lab_test", <<labtest_id>>, TRUE)
            /\ UNCHANGED <<patients, features, studies, now>>

release_lab_test(labtest_id) ==
    /\ Idle
    /\ IF LabTestGet(labtest_id) = None
       THEN /\ Wrote("release_lab_test", <<labtest_id>>, FALSE)
            /\ UNCHANGED <<store, now>>
       ELSE /\ labtests' = [labtests EXCEPT ![labtest_id].is_released = TRUE]
            /\ Wrote("release_lab_test", <<labtest_id>>, TRUE)
            /\ UNCHANGED <<patients, features, studies, now>>

-----------------------------------------------------------------------------
(* fetch_db_methods.py, home_methods.py, lists_methods.py: the lab tests   *)
(* the pages show.                                                         *)

\* rows.sort(reverse=True) under the order Gt, and ORDER BY ... DESC: rows
\* the order does not tell apart stay as they were
SortDesc(rows, Gt(_, _)) ==
    LET place(i) == 1 + Cardinality({k \in DOMAIN rows : Gt(rows[k], rows[i])})
                      + Cardinality({k \in 1..(i - 1) :
                            ~Gt(rows[i], rows[k]) /\ ~Gt(rows[k], rows[i])})
    IN  [r \in DOMAIN rows |-> rows[CHOOSE i \in DOMAIN rows : place(i) = r]]

\* a result date as a sort key: NULL sorts below every date
ResultKey(t) == IF t.result_date = None THEN -1 ELSE t.result_date[1]

\* order_by(LabTest.result_date.desc(), LabTest.collection_date.desc())
LatestFirst(a, b) ==
    \/ ResultKey(a) > ResultKey(b)
    \/ ResultKey(a) = ResultKey(b) /\ a.collection_date > b.collection_date

\* the latest test of the patient that is ready or released, or None
_latest_released_lab(patient_id) ==
    LET rows == SortDesc(SelectSeq(labtests, LAMBDA t :
                    t.patient_id = patient_id /\ StatusEligible(t)), LatestFirst)
    IN  IF rows = <<>> THEN None ELSE Some(rows[1])

\* the smoking codes of the patient profile
smoking_map ==
    (1 :> "Never smoked regularly") @@ (2 :> "Quit before pregnancy") @@
    (3 :> "Quit when pregnancy was confirmed") @@ (4 :> "Quit later in pregnancy") @@
    (5 :> "Smoked during pregnancy")

\* smoking_map.get(feats.get("Smoking"), "N/A"): a float is a key of the map
\* when it equals one of its integers
SmokingStatus(feats) ==
    LET smoking == Get(feats, "Smoking")
    IN  IF smoking # None /\ \E c \in DOMAIN smoking_map : smoking[1] = Num(c)
        THEN smoking_map[CHOOSE c \in DOMAIN smoking_map : smoking[1] = Num(c)]
        ELSE "N/A"

\* the lab cards of the patient profile: one per row of the latest test's
\* results
lab_cards(patient_id) ==
    LET lt == _latest_released_lab(patient_id)
    IN  IF lt # None /\ lt[1].pcb_results # None /\ lt[1].pcb_results # <<>>
        THEN [test |-> Some(lt[1].id), rows |-> lt[1].pcb_results[1]]
        ELSE [test |-> None, rows |-> <<>>]

\* t.result_date or t.collection_date
WhenOf(t) == IF t.result_date # None THEN t.result_date[1] ELSE t.collection_date

\* the physician's "Lab test released" items, newest first; the items of the
\* other tables are left out
fetch_recent_activities(user_id, limit) ==
    LET released == Limit(SortDesc(SelectSeq(labtests, LAMBDA t :
                        t.physician_id = user_id /\ t.status = "released"),
                        LAMBDA a, b : ResultKey(a) > ResultKey(b)), 6)
        items == [i \in DOMAIN released |->
                    [when |-> Midnight(WhenOf(released[i])), test |-> released[i].id]]
    IN  Limit(SortDesc(items, LAMBDA a, b : a.when > b.when), limit)

\* 0 if s == "released" else 1
tier(t) == IF t.status = "released" THEN 0 ELSE 1

\* the key (tier(t), dt_when(t)) of one test above that of another
PageKeyGt(a, b) ==
    \/ tier(a) > tier(b)
    \/ tier(a) = tier(b) /\ WhenOf(a) > WhenOf(b)

\* the records of the lab results page, in the order of the page
get_lab_results_page ==
    LET tests == SortDesc(SelectReadyTests, PageKeyGt)
    IN  [records |-> [i \in DOMAIN tests |->
                        [id |-> tests[i].id,
                         status |-> IF tests[i].status = "released"
                                    THEN "Released" ELSE "Ready"]],
         total |-> Len(tests),
         ready_cnt |-> Len(SelectSeq(tests, LAMBDA t : t.status = "ready")),
         released_cnt |-> Len(SelectSeq(tests, LAMBDA t : t.status = "released"))]

\* a read of the store outside the dashboard
Reads(fn, args, out) ==
    /\ Idle
    /\ Wrote(fn, args, out)
    /\ UNCHANGED <<store, now>>

call_lab_cards(patient_id) ==
    Reads("lab_cards", <<patient_id>>, lab_cards(patient_id))

call_fetch_recent_activities(user_id) ==
    Reads("fetch_recent_activities", <<user_id>>, fetch_recent_activities(user_id, 5))

call_get_lab_results_page ==
    Reads("get_lab_results_page", <<>>, get_lab_results_page)

\* the workflow from an empty LabTest table
InitFlow ==
    /\ patients = SeedPatients
    /\ features = <<>>
    /\ labtests = <<>>
    /\ studies = SeedStudies
    /\ now = Now0
    /\ window = None
    /\ payload = None

\* the ids requests name: those of the rows, and one of no row
PatientIds == 1..(Len(patients) + 1)

LabTestIds == 1..(Len(labtests) + 1)

NextFlow ==
    \/ \E patient_id \in PatientIds, physician_id \in Physicians, severity \in Severities :
           insert_new_labtest_request(patient_id, physician_id, severity)
    \/ \E labtest_id \in LabTestIds, pcb_results \in MachineResults :
           dispatch_lab_test(labtest_id, pcb_results)
    \/ \E labtest_id \in LabTestIds : release_lab_test(labtest_id)
    \/ \E patient_id \in PatientIds : call_lab_cards(patient_id)
    \/ \E user_id \in Physicians : call_fetch_recent_activities(user_id)
    \/ call_get_lab_results_page
    \/ Respond
    \/ Tick

SpecFlow == InitFlow /\ [][NextFlow]_vars

-----------------------------------------------------------------------------
(* insert_db_methods.py, lists_methods.py: the patient records of the data *)
(* clerk.                                                                  *)

\* the notes entered and stored
NoteTexts == {"stable", "Needs UPDATE", "review labs"}

\* (p.notes or "").lower() on the notes the stores hold
NotesLower(notes) ==
    IF notes = None THEN ""
    ELSE CASE notes[1] = "Needs UPDATE" -> "needs update"
           [] OTHER -> notes[1]

\* word in notes, on the lowered notes the stores hold
Mentions(notes, word) ==
    <<notes, word>> \in {<<"needs update", "update">>, <<"review labs", "review">>}

update_patient_notes(notes, patient_id) ==
    /\ Idle
    /\ IF PatientGet(patient_id) = None
       THEN /\ Wrote("update_patient_notes", <<patient_id>>, 404)
            /\ UNCHANGED <<store, now>>
       ELSE /\ patients' = [i \in DOMAIN patients |->
                              IF patients[i].id = patient_id
                              THEN [patients[i] EXCEPT !.notes = Some(notes)]
                              ELSE patients[i]]
            /\ Wrote("update_patient_notes", <<patient_id>>, 200)
            /\ UNCHANGED <<features, labtests, studies, now>>

\* (not p.is_complete) or (p.gestational_age is None) or (p.due_date is None)
IsIncomplete(p) == ~p.is_complete \/ p.gestational_age = None \/ p.due_date = None

\* ("update" in notes) or ("review" in notes) or (p.risk is None)
WantsUpdate(p) ==
    \/ Mentions(NotesLower(p.notes), "update")
    \/ Mentions(NotesLower(p.notes), "review")
    \/ p.risk = None

\* the badge of a record: Incomplete > Needs Update > Complete
data_status(p) ==
    IF IsIncomplete(p) THEN "Incomplete"
    ELSE IF WantsUpdate(p) THEN "Needs Update"
    ELSE "Complete"

\* sum(1 for p in patients if P(p))
CountPatients(rows, P(_)) == Cardinality({i \in DOMAIN rows : P(rows[i])})

\* the records of the page, newest patient first, and its four summary numbers
get_data_clerk_patients_page ==
    LET rows == SortDesc(patients, LAMBDA a, b : a.id > b.id)
    IN  [records |-> [i \in DOMAIN rows |->
                        [id |-> rows[i].id, status |-> data_status(rows[i])]],
         summary |->
            <<[number |-> Len(rows), label |-> "Total Patients"],
              [number |-> CountPatients(rows, IsIncomplete),
               label |-> "Incomplete Records"],
              [number |-> CountPatients(rows, LAMBDA p : p.is_complete /\ WantsUpdate(p)),
               label |-> "Requires Update"],
              [number |-> CountPatients(rows, LAMBDA p :
                              /\ p.is_complete
                              /\ p.gestational_age # None
                              /\ p.due_date # None
                              /\ ~Mentions(NotesLower(p.notes), "update")
                              /\ ~Mentions(NotesLower(p.notes), "review")
                              /\ p.risk # None),
               label |-> "Complete Records"]>>]

call_get_data_clerk_patients_page ==
    Reads("get_data_clerk_patients_page", <<>>, get_data_clerk_patients_page)

\* patient records as they are found in the store: (is_complete,
\* gestational_age, due_date, notes, risk)
ClerkRow(is_complete, gestational_age, due_date, notes, risk) ==
    [age |-> Some(30), risk |-> risk, gestational_age |-> gestational_age,
     due_date |-> due_date, is_complete |-> is_complete, notes |-> notes]

ClerkRows ==
    {ClerkRow(TRUE, Some(20), Some(DateOf(Now0) + 140), None, Some("low")),
     ClerkRow(TRUE, Some(20), Some(DateOf(Now0) + 140), Some("Needs UPDATE"), Some("high")),
     ClerkRow(TRUE, Some(20), Some(DateOf(Now0) + 140), Some("stable"), None),
     ClerkRow(FALSE, Some(20), None, Some("review labs"), Some("low")),
     ClerkRow(TRUE, None, Some(DateOf(Now0) + 140), None, None),
     ClerkRow(TRUE, Some(20), None, Some("stable"), Some("medium"))}

InitClerk ==
    /\ patients \in {WithIds(ps) : ps \in SeqUpTo(ClerkRows, MaxPatients - 1)}
    /\ features = <<>>
    /\ labtests = <<>>
    /\ studies = SeedStudies
    /\ now = Now0
    /\ window = None
    /\ payload = None

NextClerk ==
    \/ call_get_data_clerk_patients_page
    \/ \E notes \in NoteTexts, patient_id \in PatientIds :
           update_patient_notes(notes, patient_id)
    \/ Environment

SpecClerk == InitClerk /\ [][NextClerk]_vars

\* the lab results page over the lab tests found in the store
NextPage == call_get_lab_results_page \/ Environment

SpecPage == InitLab /\ [][NextPage]_vars

-----------------------------------------------------------------------------
(* What the claims speak of.                                               *)

\* a call of fn has returned and its result is at hand
Returned(fn) == payload # None /\ payload[1].fn = fn

Out == payload[1].out

WStart == window[1][1]

WEnd == window[1][2]

\* the snapshots the window of the request selects, in table order
InWindow == SelectSeq(features, LAMBDA mf : WStart <= mf.date /\ mf.date <= WEnd)

\* the patients with a snapshot the window selects
PatientsInWindow == {InWindow[i].patient_id : i \in DOMAIN InWindow}

\* the snapshots of patient p among those the window selects
OfPatient(p) == {i \in DOMAIN InWindow : InWindow[i].patient_id = p}

\* the greatest timestamp of patient p's snapshots in the window
MaxDate(p) ==
    CHOOSE d \in {InWindow[i].date : i \in OfPatient(p)} :
        \A i \in OfPatient(p) : InWindow[i].date <= d

\* C4: _latest_by_patient returns exactly one entry per distinct patient id of
\* its input, and each entry is a snapshot of the input whose timestamp is the
\* maximum among that patient's snapshots, whatever the order of the input.
C4_LatestIsMaximum ==
    Returned("_latest_by_patient") =>
        /\ {Out[i].patient_id : i \in DOMAIN Out} = PatientsInWindow
        /\ Len(Out) = Cardinality(PatientsInWindow)
        /\ \A i \in DOMAIN Out :
              /\ Out[i] \in Range(InWindow)
              /\ Out[i].date = MaxDate(Out[i].patient_id)

\* a patient has an earlier snapshot listed after a later one, and the
\* reduction has run on that input
C4_Witness ==
    /\ Returned("_latest_by_patient")
    /\ \E i, j \in DOMAIN InWindow :
          /\ i < j
          /\ InWindow[i].patient_id = InWindow[j].patient_id
          /\ InWindow[j].date < InWindow[i].date
          /\ InWindow[i] \in Range(Out)

\* the snapshots of patient p in the window that carry p's greatest timestamp
AtMaxDate(p) == {i \in OfPatient(p) : InWindow[i].date = MaxDate(p)}

\* C5 as stated: of two snapshots of a patient with an equal maximum
\* timestamp, _latest_by_patient retains the one that appears last in the input.
C5_TieKeepsLast ==
    Returned("_latest_by_patient") =>
        \A i \in DOMAIN Out :
            \A j \in AtMaxDate(Out[i].patient_id) : InWindow[j].id <= Out[i].id

\* C5 amended: of the snapshots of a patient that carry the maximum timestamp,
\* _latest_by_patient retains the one that appears first in the input.
C5_TieKeepsFirst ==
    Returned("_latest_by_patient") =>
        \A i \in DOMAIN Out :
            \A j \in AtMaxDate(Out[i].patient_id) : Out[i].id <= InWindow[j].id

\* two snapshots of one patient tie at the maximum and differ in content
C5_Witness ==
    /\ Returned("_latest_by_patient")
    /\ \E p \in PatientsInWindow :
          \E i, j \in AtMaxDate(p) :
              /\ i < j
              /\ InWindow[i].output_predictions # InWindow[j].output_predictions

\* the arithmetic mean of the values xs, 0 for none
MeanOf(xs) == IF xs = <<>> THEN Zero ELSE RDiv(RSum(xs), Num(Len(xs)))

\* the snapshots in the half-open window start <= t < end
InHalfOpen == SelectSeq(features, LAMBDA mf : WStart <= mf.date /\ mf.date < WEnd)

\* the ready or released tests in the half-open window, in table order
TestsInHalfOpen ==
    SelectSeq(labtests, LAMBDA t :
        /\ t.status \in {"ready", "released"}
        /\ WStart <= _test_date(t)
        /\ _test_date(t) < WEnd)

\* the measured levels of contaminant k in the tests ts
LevelsOf(ts, k) ==
    Flatten([i \in DOMAIN ts |->
        Map(SelectSeq(OrEmptyList(ts[i].pcb_results),
                      LAMBDA row : Upper(row.name) = k /\ row.level # None),
            LAMBDA row : row.level[1])])

\* C1 as stated: a record is in range only when start <= t < end; a snapshot
\* or lab test whose timestamp equals end is excluded from every aggregation
\* (here: the patients counted by the summary, and the maternal averages), and
\* one whose timestamp equals start is included.
C1_HalfOpenWindow ==
    Returned("get_dashboard_data") =>
        /\ Out.summary.total_patients =
              Cardinality({InHalfOpen[i].patient_id : i \in DOMAIN InHalfOpen})
        /\ \A i \in DOMAIN PCB_KEYS :
              Out.avg_pcb_levels.maternal[i] =
                  MeanOf(LevelsOf(TestsInHalfOpen, PCB_KEYS[i]))

\* C2 as stated: the fetal mean of fetch_avg_pcb_levels is taken over the
\* latest snapshot of each patient in range; of several snapshots of a patient
\* only the one with the maximum timestamp contributes.
C2_FetalMeanOverLatest ==
    Returned("fetch_avg_pcb_levels") =>
        \A i \in DOMAIN PCB_KEYS :
            Out.fetal[i] =
                MeanOf(FetalLevels(PCB_KEYS[i], _latest_by_patient(InWindow)))

\* the ready or released tests of patient p the window selects
EligibleTests(p) ==
    SelectSeq(labtests, LAMBDA t :
        /\ t.status \in {"ready", "released"}
        /\ t.patient_id = p
        /\ WStart <= _test_date(t)
        /\ _test_date(t) <= WEnd)

\* every measured level of patient p over all the tests the window selects
AllLevels(p) == Flatten(Map(EligibleTests(p), TestLevels))

\* the snapshot of patient p the latest-per-patient selection keeps
LatestOf(p) ==
    InWindow[CHOOSE i \in AtMaxDate(p) : \A j \in AtMaxDate(p) : i <= j]

\* the predictions of a snapshot, in the order of PCB_KEYS, 0 where missing
Predictions(mf) ==
    [i \in DOMAIN PCB_KEYS |->
        LET preds == IF mf.output_predictions = None
                     THEN EmptyDict ELSE mf.output_predictions[1]
        IN  IF Get(preds, PCB_KEYS[i]) = None THEN Zero
            ELSE Get(preds, PCB_KEYS[i])[1]]

\* the strictly positive predictions of a snapshot
PositivePreds(mf) == SelectSeq(Predictions(mf), LAMBDA v : v[1] > 0)

\* the patients with a measured level and with a positive prediction in their
\* latest snapshot, in ascending order of id
SeriesPatients ==
    Sorted({p \in PatientsInWindow :
              AllLevels(p) # <<>> /\ PositivePreds(LatestOf(p)) # <<>>})

\* C3 as stated: the maternal value of a patient in fetch_concentration_series
\* is the mean of all that patient's measured levels over all of their ready or
\* released tests in range.
C3_MaternalMeanOverAllTests ==
    Returned("fetch_concentration_series") =>
        /\ Len(Out.maternal_series) = Len(SeriesPatients)
        /\ \A i \in DOMAIN Out.maternal_series :
              Out.maternal_series[i] = MeanOf(AllLevels(SeriesPatients[i]))

\* the patients that have the x-variable: an age on the patient row for
\* fetch_scatter_total_vs_age, an "Age" feature in a snapshot in range for
\* fetch_lifestyle_clusters
PatientsWithAge ==
    {p \in PatientsInWindow :
        PatientGet(p) # None /\ PatientGet(p)[1].age # None}

PatientsWithAgeFeature ==
    {p \in PatientsInWindow :
        \E i \in OfPatient(p) : Get(InWindow[i].input_features, "Age") # None}

\* C6 as stated: the point datasets hold at most one point per patient, and
\* none for a patient whose x-variable is missing.
C6_OnePointPerPatient ==
    /\ Returned("fetch_scatter_total_vs_age") =>
          Len(Out) <= Cardinality(PatientsWithAge)
    /\ Returned("fetch_lifestyle_clusters") =>
          Len(Out) <= Cardinality(PatientsWithAgeFeature)

\* the means of the single tests of patient p
TestMeans(p) ==
    {MeanOf(TestLevels(EligibleTests(p)[i])) :
        i \in {j \in DOMAIN EligibleTests(p) : TestLevels(EligibleTests(p)[j]) # <<>>}}

\* C7: fetch_concentration_series is an inner join on the patient id: the
\* patients of the output are exactly those with both a maternal and a fetal
\* average, the three sequences have equal length, and the i-th maternal and
\* the i-th fetal value are those of the same, i-th, patient.
C7_InnerJoin ==
    Returned("fetch_concentration_series") =>
        /\ Len(Out.labels) = Len(SeriesPatients)
        /\ Len(Out.maternal_series) = Len(Out.labels)
        /\ Len(Out.fetal_series) = Len(Out.labels)
        /\ \A i \in DOMAIN Out.labels :
              /\ Out.labels[i] = <<"P", i>>
              /\ Out.maternal_series[i] \in TestMeans(SeriesPatients[i])
              /\ Out.fetal_series[i] = MeanOf(PositivePreds(LatestOf(SeriesPatients[i])))

\* a patient with a maternal average only is left out of a non-empty output
C7_Witness ==
    /\ Returned("fetch_concentration_series")
    /\ Len(Out.labels) >= 1
    /\ \E t \in Range(labtests) :
          /\ AllLevels(t.patient_id) # <<>>
          /\ t.patient_id \in PatientsInWindow
          /\ PositivePreds(LatestOf(t.patient_id)) = <<>>

\* C8: the fetal average of a patient in fetch_concentration_series is the mean
\* of the strictly positive predictions of the latest snapshot in range; zero
\* and missing predictions count neither in the sum nor in the number, and a
\* patient without a positive prediction has no fetal value.
C8_FetalMeanOfPositive ==
    Returned("fetch_concentration_series") =>
        /\ Len(Out.fetal_series) = Len(SeriesPatients)
        /\ \A p \in PatientsInWindow :
              PositivePreds(LatestOf(p)) = <<>> => p \notin Range(SeriesPatients)
        /\ \A i \in DOMAIN Out.fetal_series :
              LET pos == PositivePreds(LatestOf(SeriesPatients[i]))
              IN  /\ pos # <<>>
                  /\ Out.fetal_series[i] = RDiv(RSum(pos), Num(Len(pos)))

\* a patient of the output whose latest snapshot predicts a zero
C8_Witness ==
    /\ Returned("fetch_concentration_series")
    /\ \E i \in DOMAIN Out.fetal_series :
          LET mf == LatestOf(SeriesPatients[i])
          IN  /\ mf.output_predictions # None
              /\ \E k \in Range(PCB_KEYS) :
                    Get(mf.output_predictions[1], k) = Some(Zero)
              /\ Cardinality(OfPatient(mf.patient_id)) > 1

\* the ready or released tests the window of the code selects
TestsInWindow ==
    SelectSeq(labtests, LAMBDA t :
        /\ t.status \in {"ready", "released"}
        /\ WStart <= _test_date(t)
        /\ _test_date(t) <= WEnd)

\* C9: the maternal average of a substance in fetch_avg_pcb_levels is the mean
\* of its measured levels over the ready and released tests in the window, and
\* no pending test contributes to a maternal value of fetch_avg_pcb_levels or
\* of fetch_concentration_series.
C9_MaternalOverReadyReleased ==
    /\ Returned("fetch_avg_pcb_levels") =>
          \A i \in DOMAIN PCB_KEYS :
              Out.maternal[i] = MeanOf(LevelsOf(TestsInWindow, PCB_KEYS[i]))
    /\ Returned("fetch_concentration_series") =>
          \A i \in DOMAIN Out.maternal_series :
              \E t \in Range(TestsInWindow) :
                  /\ TestLevels(t) # <<>>
                  /\ Out.maternal_series[i] = MeanOf(TestLevels(t))

\* two tests with PCB_118 levels 2 and 4 give 3, beside a pending test
C9_Witness ==
    /\ Returned("fetch_avg_pcb_levels")
    /\ LevelsOf(TestsInWindow, "PCB_118") \in {<<Num(2), Num(4)>>, <<Num(4), Num(2)>>}
    /\ Out.maternal[1] = Num(3)

\* n times the value z
Zeros(n, z) == [i \in 1..n |-> z]

\* the payload of a dashboard without data
DefaultPayload ==
    [summary |-> [total_patients |-> 0, high_risk |-> 0, top_pcb |-> "PCB_118",
                  top_pcb_avg |-> Zero, avg_fetal_pcb |-> Zero, correlation |-> Zero],
     avg_pcb_levels |-> [labels |-> PCB_KEYS,
                         maternal |-> Zeros(Len(PCB_KEYS), Zero),
                         fetal |-> Zeros(Len(PCB_KEYS), Zero)],
     risk_distribution |-> [labels |-> PCB_KEYS,
                            risk_low |-> Zeros(Len(PCB_KEYS), 0),
                            risk_med |-> Zeros(Len(PCB_KEYS), 0),
                            risk_high |-> Zeros(Len(PCB_KEYS), 0)],
     concentration_series |-> [labels |-> <<>>, maternal_series |-> <<>>,
                               fetal_series |-> <<>>],
     demographics |->
        [pcb_by_age |-> [labels |-> <<"<25", "25-30", "31-35", "36-40", "41+">>,
                         values |-> Zeros(5, Zero)],
         scatter_total_vs_age |-> <<>>,
         pcb_by_bmi |-> [labels |-> <<"Underweight", "Normal", "Overweight">>,
                         values |-> Zeros(3, Zero)],
         smoking_comparison |-> [labels |-> <<"Non-smokers", "Smokers">>,
                                 values |-> Zeros(2, Zero)],
         correlation_heatmap |->
            [labels |-> <<"Diet", "Smoking", "BMI", "Age", "mPCB">>,
             matrix |-> Zeros(5, Zeros(5, Zero))]],
     environment |->
        [exposure_contribution |->
            [labels |-> <<"Chemical exposure", "Coffee", "Tea", "BMI", "Smoking",
                          "Maternal Education">>,
             values |-> Zeros(6, Zero)],
         dietary_patterns |-> [labels |-> <<"Low dairy", "Medium dairy", "High dairy">>,
                               values |-> Zeros(3, Zero)],
         lifestyle_clusters |-> <<>>],
     research |-> <<>>]

\* no snapshot, no ready or released test in the window, and no study
NoData == InWindow = <<>> /\ TestsInWindow = <<>> /\ studies = <<>>

\* C10: on empty inputs every aggregation of the dashboard returns its default
\* shape, the fixed labels with zero values or an empty list of points, and
\* none raises.
C10_EmptyDefaults ==
    (Returned("get_dashboard_data") /\ NoData) => Out = DefaultPayload

\* the store holds snapshots, none of them in the window
C10_Witness ==
    /\ Returned("get_dashboard_data")
    /\ NoData
    /\ features # <<>>

\* v < k, v >= k for a value v and an integer k
Below(v, k) == v[1] < k * v[2]

AtLeast(v, k) == v[1] >= k * v[2]

\* the number of snapshots in the window whose prediction i satisfies P
CountPredictions(i, P(_)) ==
    Cardinality({j \in DOMAIN InWindow : P(Predictions(InWindow[j])[i])})

\* C11: for each contaminant, at its index in the fixed label order, the three
\* counts of fetch_risk_distribution_by_pcb are the numbers of snapshots in
\* range whose predicted value v has v < 2.0 (low), 2.0 <= v < 4.0 (medium) and
\* v >= 4.0 (high).
C11_RiskThresholds ==
    Returned("fetch_risk_distribution_by_pcb") =>
        /\ Out.labels = PCB_KEYS
        /\ \A i \in DOMAIN PCB_KEYS :
              /\ Out.risk_low[i] = CountPredictions(i, LAMBDA v : Below(v, 2))
              /\ Out.risk_med[i] =
                    CountPredictions(i, LAMBDA v : AtLeast(v, 2) /\ Below(v, 4))
              /\ Out.risk_high[i] = CountPredictions(i, LAMBDA v : AtLeast(v, 4))

\* PCB_118 is predicted at exactly 2.0 and at exactly 4.0, PCB_74 at 3.0 and 5.0
C11_Witness ==
    /\ Returned("fetch_risk_distribution_by_pcb")
    /\ {Predictions(InWindow[j])[1] : j \in DOMAIN InWindow} = {Num(2), Num(4)}
    /\ {Predictions(InWindow[j])[5] : j \in DOMAIN InWindow} = {Num(3), Num(5)}
    /\ Out.risk_low[1] = 0 /\ Out.risk_med[1] = 1 /\ Out.risk_high[1] = 1
    /\ Out.risk_low[2] = 1

\* the total predicted load of a snapshot: the sum of its ten predictions
Load(mf) == RSum(Predictions(mf))

\* the latest snapshot of every patient with a snapshot in the window: none of
\* the patient's snapshots is later, and none of the same date comes before it
LatestRows ==
    LET rows == InWindow
    IN  SelectSeq(rows, LAMBDA mf :
            \A j \in DOMAIN rows :
                rows[j].patient_id = mf.patient_id =>
                    \/ rows[j].date < mf.date
                    \/ rows[j].date = mf.date /\ mf.id <= rows[j].id)

\* the stored age of patient p, None without a patient row
PatientAge(p) ==
    LET S == {i \in DOMAIN patients : patients[i].id = p}
    IN  IF S = {} THEN None ELSE patients[CHOOSE i \in S : TRUE].age

\* the value of a feature, None when the key is missing or null
Feature(mf, key) ==
    IF key \in DOMAIN mf.input_features THEN mf.input_features[key] ELSE None

\* the loads of the rows that satisfy P
LoadsWhere(rows, P(_)) ==
    LET sel == SelectSeq(rows, P) IN [i \in DOMAIN sel |-> Load(sel[i])]

\* the index of the band of an age, of the bucket of a BMI, of a dairy intake
BandIndex(a) ==
    IF a < 25 THEN 1 ELSE IF a <= 30 THEN 2 ELSE IF a <= 35 THEN 3
    ELSE IF a <= 40 THEN 4 ELSE 5

BucketIndex(b) == IF 2 * b[1] < 37 * b[2] THEN 1 ELSE IF Below(b, 25) THEN 2 ELSE 3

DairyIntake(mf) ==
    IF "Daily dairy doses" \in DOMAIN mf.input_features
    THEN (IF Feature(mf, "Daily dairy doses") = None THEN Zero
          ELSE Feature(mf, "Daily dairy doses")[1])
    ELSE IF Feature(mf, "Sum of dairy products") = None THEN Zero
    ELSE Feature(mf, "Sum of dairy products")[1]

DairyIndex(d) == IF Below(d, 1) THEN 1 ELSE IF Below(d, 2) THEN 2 ELSE 3

\* the smoking code of a snapshot is 1
SmokingFlag(mf) ==
    /\ Feature(mf, "Smoking") # None
    /\ AtLeast(Feature(mf, "Smoking")[1], 1) /\ Below(Feature(mf, "Smoking")[1], 2)

\* the members of the groups: patients with an age, by their latest snapshot,
\* for the age bands; snapshots in range for the other groupings
AgeMembers(i) ==
    LoadsWhere(LatestRows, LAMBDA mf :
        PatientAge(mf.patient_id) # None /\ BandIndex(PatientAge(mf.patient_id)[1]) = i)

BmiMembers(i) ==
    LoadsWhere(InWindow, LAMBDA mf :
        Feature(mf, "BMI") # None /\ BucketIndex(Feature(mf, "BMI")[1]) = i)

DairyMembers(i) == LoadsWhere(InWindow, LAMBDA mf : DairyIndex(DairyIntake(mf)) = i)

SmokingMembers(i) == LoadsWhere(InWindow, LAMBDA mf : SmokingFlag(mf) <=> i = 2)

\* C12: each grouped average returns its whole fixed list of labels, in order,
\* with one value per label: the mean of the total predicted load over the
\* members of the group (rounded to three decimals for output by
\* fetch_dietary_patterns), and 0.0 for a group without members.
C12_GroupedAverages ==
    /\ Returned("fetch_age_groups_avg") =>
          /\ Out.labels = <<"<25", "25-30", "31-35", "36-40", "41+">>
          /\ Out.values = [i \in 1..5 |-> MeanOf(AgeMembers(i))]
    /\ Returned("fetch_pcb_by_bmi") =>
          /\ Out.labels = <<"Underweight", "Normal", "Overweight">>
          /\ Out.values = [i \in 1..3 |-> MeanOf(BmiMembers(i))]
    /\ Returned("fetch_dietary_patterns") =>
          /\ Out.labels = <<"Low dairy", "Medium dairy", "High dairy">>
          /\ Out.values = [i \in 1..3 |-> Round3(MeanOf(DairyMembers(i)))]
    /\ Returned("fetch_smoking_comparison") =>
          /\ Out.labels = <<"Non-smokers", "Smokers">>
          /\ Out.values = [i \in 1..2 |-> MeanOf(SmokingMembers(i))]

\* a dairy group of two snapshots with different loads beside a group without
\* members, which is listed with 0.0
C12_Witness ==
    /\ Returned("fetch_dietary_patterns")
    /\ \E i, j \in 1..3 :
          /\ Len(DairyMembers(i)) = 2
          /\ DairyMembers(i)[1] # DairyMembers(i)[2]
          /\ Out.values[i] # Zero
          /\ DairyMembers(j) = <<>>
          /\ Out.values[j] = Zero
    /\ \E k \in DOMAIN InWindow :
          "Daily dairy doses" \notin DOMAIN InWindow[k].input_features
              /\ "Sum of dairy products" \in DOMAIN InWindow[k].input_features

\* the snapshot carries a prediction for contaminant i
HasPrediction(mf, i) ==
    /\ mf.output_predictions # None
    /\ PCB_KEYS[i] \in DOMAIN mf.output_predictions[1]
    /\ mf.output_predictions[1][PCB_KEYS[i]] # None

\* the average fetal prediction of contaminant i over the latest snapshots
\* that carry one
FetalAverageOver(latest, i) ==
    LET rows == SelectSeq(latest, LAMBDA mf : HasPrediction(mf, i))
    IN  MeanOf([j \in DOMAIN rows |-> Predictions(rows[j])[i]])

FetalAverage(i) == FetalAverageOver(LatestRows, i)

\* the index of the contaminant the summary names
TopOf(name) == CHOOSE i \in DOMAIN PCB_KEYS : PCB_KEYS[i] = name

\* C13: top_pcb of the summary is a contaminant of the highest average fetal
\* prediction, the first of them in the fixed label order when several share
\* it (all of them when every average is zero), and top_pcb_avg is its
\* average, as rounded for output.
C13_TopSubstance ==
    Returned("fetch_summary") =>
        LET latest == LatestRows
            avgs == [j \in DOMAIN PCB_KEYS |-> FetalAverageOver(latest, j)]
            top == TopOf(Out.top_pcb)
        IN  /\ Out.top_pcb \in Range(PCB_KEYS)
            /\ \A j \in DOMAIN PCB_KEYS : RLe(avgs[j], avgs[top])
            /\ \A j \in 1..(top - 1) : RLt(avgs[j], avgs[top])
            /\ Out.top_pcb_avg = Round3(avgs[top])

\* PCB_138 and PCB_74 share the highest average, above that of PCB_118
C13_Witness ==
    /\ Returned("fetch_summary")
    /\ Out.top_pcb = "PCB_138"
    /\ FetalAverage(5) = FetalAverage(2)
    /\ RLt(Zero, FetalAverage(1))
    /\ Len(LatestRows) = 2

\* the stored risk label of patient p reads "high", in whatever case
StoredHigh(p) ==
    \E i \in DOMAIN patients :
        /\ patients[i].id = p
        /\ patients[i].risk \in {Some("high"), Some("High"), Some("HIGH")}

\* C14: the summary counts patients: total_patients is the number of distinct
\* patients with a snapshot in range and high_risk the number of those whose
\* stored risk label is "high", each counted once, so high_risk never exceeds
\* total_patients.
C14_SummaryCountsPatients ==
    Returned("fetch_summary") =>
        /\ Out.total_patients = Cardinality(PatientsInWindow)
        /\ Out.high_risk = Cardinality({p \in PatientsInWindow : StoredHigh(p)})
        /\ Out.high_risk <= Out.total_patients

\* a high-risk patient with two snapshots in range is counted once
C14_Witness ==
    /\ Returned("fetch_summary")
    /\ \E p \in PatientsInWindow : Cardinality(OfPatient(p)) = 2 /\ StoredHigh(p)
    /\ Out.total_patients = 1
    /\ Out.high_risk = 1

\* the snapshots in range that carry an age of their own
RowsWithAgeFeature == SelectSeq(InWindow, LAMBDA mf : Feature(mf, "Age") # None)

\* C15: the total predicted load of a snapshot is the sum of its predictions
\* for the ten named contaminants, a missing key or an absent output map
\* counting 0.0, and every aggregation that uses the total load works with
\* this value: the summary's mean, the y of the scatter and cluster points,
\* and the value of a group whose only member is that snapshot.
C15_TotalLoad ==
    /\ Returned("fetch_summary") =>
           Out.avg_fetal_pcb = Round3(MeanOf(LoadsWhere(LatestRows, LAMBDA mf : TRUE)))
    /\ Returned("fetch_scatter_total_vs_age") =>
           LET latest == LatestRows
               y == [j \in DOMAIN latest |-> Round3(Load(latest[j]))]
           IN  /\ \A i \in DOMAIN Out : \E j \in DOMAIN latest : Out[i].y = y[j]
               /\ \A j \in DOMAIN latest :
                      PatientAge(latest[j].patient_id) # None =>
                          \E i \in DOMAIN Out : Out[i].y = y[j]
    /\ Returned("fetch_lifestyle_clusters") =>
           LET rows == RowsWithAgeFeature
           IN  /\ Len(Out) = Len(rows)
               /\ \A i \in DOMAIN Out : Out[i].y = Round3(Load(rows[i]))
    /\ Returned("fetch_age_groups_avg") =>
           \A i \in DOMAIN Out.values :
               LET members == AgeMembers(i)
               IN  Len(members) = 1 => Out.values[i] = members[1]
    /\ Returned("fetch_pcb_by_bmi") =>
           \A i \in DOMAIN Out.values :
               LET members == BmiMembers(i)
               IN  Len(members) = 1 => Out.values[i] = members[1]
    /\ Returned("fetch_smoking_comparison") =>
           \A i \in DOMAIN Out.values :
               LET members == SmokingMembers(i)
               IN  Len(members) = 1 => Out.values[i] = members[1]

\* a snapshot without an output map beside one with three of the ten keys:
\* their loads are 0 and 14, the summary's mean is 7
C15_Witness ==
    /\ Returned("fetch_summary")
    /\ Len(LatestRows) = 2
    /\ \E i, j \in DOMAIN LatestRows :
           /\ LatestRows[i].output_predictions = None
           /\ LatestRows[j].output_predictions # None
           /\ Load(LatestRows[j]) = Num(14)
    /\ Out.avg_fetal_pcb = Num(7)

\* age a lies in the i-th band, by the band's stated boundaries
InBand(a, i) ==
    CASE i = 1 -> a < 25
      [] i = 2 -> 25 <= a /\ a <= 30
      [] i = 3 -> 31 <= a /\ a <= 35
      [] i = 4 -> 36 <= a /\ a <= 40
      [] i = 5 -> a >= 41

\* the latest snapshots of the patients whose age lies in the i-th band
BandRows(i) ==
    SelectSeq(LatestRows, LAMBDA mf :
        PatientAge(mf.patient_id) # None /\ InBand(PatientAge(mf.patient_id)[1], i))

\* the stored ages of the patients with a snapshot in range
AgesInWindow ==
    {PatientAge(p)[1] : p \in {q \in PatientsInWindow : PatientAge(q) # None}}

\* C19: fetch_age_groups_avg puts every patient with an age in exactly one of
\* the five bands a < 25, 25..30, 31..35, 36..40, a >= 41: the value of a band
\* is the mean load of the patients whose age lies within its boundaries, so
\* age 30 counts in "25-30" and age 31 in "31-35".
C19_AgeBands ==
    Returned("fetch_age_groups_avg") =>
        /\ Out.labels = <<"<25", "25-30", "31-35", "36-40", "41+">>
        /\ \A a \in AgesInWindow : Cardinality({i \in 1..5 : InBand(a, i)}) = 1
        /\ \A i \in 1..5 :
               LET rows == BandRows(i)
               IN  Out.values[i] = MeanOf([j \in DOMAIN rows |-> Load(rows[j])])

\* a patient aged 30 and a patient aged 31 with different loads: each load is
\* the value of its own band
C19_Witness ==
    /\ Returned("fetch_age_groups_avg")
    /\ Len(BandRows(2)) = 1 /\ PatientAge(BandRows(2)[1].patient_id) = Some(30)
    /\ Len(BandRows(3)) = 1 /\ PatientAge(BandRows(3)[1].patient_id) = Some(31)
    /\ RLt(Zero, Load(BandRows(2)[1]))
    /\ RLt(Load(BandRows(2)[1]), Load(BandRows(3)[1]))
    /\ Out.values[2] = Load(BandRows(2)[1])
    /\ Out.values[3] = Load(BandRows(3)[1])

\* BMI b lies in the i-th bucket, by the bucket's stated boundaries (in halves,
\* 18.5 being 37/2)
InBucket(b, i) ==
    CASE i = 1 -> 2 * b[1] < 37 * b[2]
      [] i = 2 -> 2 * b[1] >= 37 * b[2] /\ b[1] < 25 * b[2]
      [] i = 3 -> b[1] >= 25 * b[2]

\* the snapshots in range whose BMI lies in the i-th bucket
BucketRows(i) ==
    SelectSeq(InWindow, LAMBDA mf :
        Feature(mf, "BMI") # None /\ InBucket(Feature(mf, "BMI")[1], i))

\* C20: fetch_pcb_by_bmi puts every snapshot with a BMI in exactly one of
\* Underweight (bmi < 18.5), Normal (18.5 <= bmi < 25) and Overweight
\* (bmi >= 25), so 18.5 is Normal and 25 is Overweight, and a snapshot without
\* BMI in none: the value of a bucket is the mean load of these snapshots only.
C20_BmiBuckets ==
    Returned("fetch_pcb_by_bmi") =>
        /\ Out.labels = <<"Underweight", "Normal", "Overweight">>
        /\ \A j \in DOMAIN InWindow :
               Feature(InWindow[j], "BMI") # None =>
                   Cardinality({i \in 1..3 : InBucket(Feature(InWindow[j], "BMI")[1], i)}) = 1
        /\ \A i \in 1..3 :
               LET rows == BucketRows(i)
               IN  Out.values[i] = MeanOf([j \in DOMAIN rows |-> Load(rows[j])])

\* snapshots with BMI 18.5 and BMI 25: the first alone makes the Normal value,
\* the second the Overweight value, and Underweight is empty
C20_Witness ==
    /\ Returned("fetch_pcb_by_bmi")
    /\ \E i, j \in DOMAIN InWindow :
           /\ Feature(InWindow[i], "BMI") = Some(Rat(37, 2))
           /\ Feature(InWindow[j], "BMI") = Some(Num(25))
           /\ RLt(Zero, Load(InWindow[i]))
           /\ RLt(Load(InWindow[i]), Load(InWindow[j]))
           /\ Out.values = <<Zero, Load(InWindow[i]), Load(InWindow[j])>>

\* a snapshot without BMI beside one with BMI 25: only the second is counted
C20_NoBmiWitness ==
    /\ Returned("fetch_pcb_by_bmi")
    /\ Len(InWindow) = 2
    /\ \E i, j \in DOMAIN InWindow :
           /\ Feature(InWindow[i], "BMI") = None
           /\ Feature(InWindow[j], "BMI") = Some(Num(25))
           /\ Out.values = <<Zero, Zero, Load(InWindow[j])>>
           /\ RLt(Zero, Load(InWindow[j]))

\* the two series a call of _corr was given
Args == payload[1].args

\* a series without variance: all its values are the same
IsConstant(xs) == \A i, j \in DOMAIN xs : xs[i] = xs[j]

\* C16: a Pearson computation returns 0.0 when the input is empty, when the
\* two series differ in length, or when either series has zero variance.
C16_DegenerateIsZero ==
    (/\ Returned("_corr")
     /\ \/ Len(Args[1]) = 0
        \/ Len(Args[1]) # Len(Args[2])
        \/ IsConstant(Args[1])
        \/ IsConstant(Args[2])) => Out = Zero

\* what does hold of the degenerate inputs: empty series and series of
\* different lengths give 0.0
C16_EmptyOrUnequalIsZero ==
    (/\ Returned("_corr")
     /\ Len(Args[1]) = 0 \/ Len(Args[1]) # Len(Args[2])) => Out = Zero

\* a constant series of three values correlated with itself gives 1.0
C16_ConstantSeriesSeen ==
    /\ Returned("_corr")
    /\ Len(Args[1]) = 3 /\ IsConstant(Args[1]) /\ Args[2] = Args[1]
    /\ Out = Num(1)

\* C17: the correlation is symmetric: for series A and B of equal length
\* _corr(A, B) is _corr(B, A), and the matrix of fetch_correlation_heatmap has
\* matrix[i][j] = matrix[j][i] for all i and j.
C17_Symmetric ==
    /\ Returned("_corr") =>
           (Len(Args[1]) = Len(Args[2]) => Out = _corr(Args[2], Args[1]))
    /\ Returned("fetch_correlation_heatmap") =>
           \A i, j \in DOMAIN Out.matrix : Out.matrix[i][j] = Out.matrix[j][i]

\* two different series of three values with a negative coefficient
C17_Witness ==
    /\ Returned("_corr")
    /\ Len(Args[1]) = 3 /\ Len(Args[2]) = 3
    /\ Args[1] # Args[2]
    /\ ~IsConstant(Args[1]) /\ ~IsConstant(Args[2])
    /\ RLt(Out, Zero)

\* a heatmap with a negative entry off the diagonal
C17_HeatmapSeen ==
    /\ Returned("fetch_correlation_heatmap")
    /\ \E i, j \in DOMAIN Out.matrix : i # j /\ RLt(Out.matrix[i][j], Zero)

\* C18: the correlation of a non-empty, non-constant series with itself is
\* 1.0, and 0.0 when the series is constant or empty.
C18_SelfCorrelationIsOne ==
    Returned("_corr") =>
        (Args[1] = Args[2] =>
            Out = IF IsConstant(Args[1]) THEN Zero ELSE Num(1))

\* a non-constant series whose correlation with itself is above 1.0
C18_AboveOneSeen ==
    /\ Returned("_corr")
    /\ Args[1] = Args[2] /\ ~IsConstant(Args[1])
    /\ RLt(Num(1), Out)

\* the days a token reaches back, 0 for a token without a span of its own
DaysBack(token) ==
    CASE token = "week" -> 7
      [] token = "month" -> 30
      [] token = "threemonths" -> 90
      [] OTHER -> 0

\* C21: the range resolver maps "week", "month" and "threemonths" to
\* (now - 7, 30, 90 days, now) and every other token, "all" and unrecognised
\* ones alike, to (the fixed early epoch, now); start < end for every token.
C21_RangeResolver ==
    Returned("get_range_bounds") =>
        /\ Out[2] = now
        /\ Out[1] = IF DaysBack(Args[1]) > 0
                    THEN now - DaysBack(Args[1]) * TicksPerDay
                    ELSE Epoch
        /\ Out[1] < Out[2]

\* the unrecognised token "year" resolved to all time, after the clock moved
C21_Witness ==
    /\ Returned("get_range_bounds")
    /\ Args[1] = "year"
    /\ now > Now0
    /\ Out = <<Epoch, now>>

\* the float v has at most three decimals
IsRounded3(v) == (1000 * v[1]) % v[2] = 0

\* C22: every average value of the payload is rounded to three decimals: no
\* average leaf leaves an aggregation unrounded.
C22_AveragesRounded ==
    /\ Returned("fetch_summary") =>
           IsRounded3(Out.top_pcb_avg) /\ IsRounded3(Out.avg_fetal_pcb)
    /\ (\/ Returned("fetch_age_groups_avg")
        \/ Returned("fetch_pcb_by_bmi")
        \/ Returned("fetch_smoking_comparison")
        \/ Returned("fetch_dietary_patterns")) =>
           \A i \in DOMAIN Out.values : IsRounded3(Out.values[i])

\* what does hold: the leaves of the summary and of the dietary patterns are
\* rounded
C22_SummaryAndDairyRounded ==
    /\ Returned("fetch_summary") =>
           IsRounded3(Out.top_pcb_avg) /\ IsRounded3(Out.avg_fetal_pcb)
    /\ Returned("fetch_dietary_patterns") =>
           \A i \in DOMAIN Out.values : IsRounded3(Out.values[i])

\* a dietary group whose mean has more than three decimals
C22_DairyRoundingSeen ==
    /\ Returned("fetch_dietary_patterns")
    /\ \E i \in 1..3 : ~IsRounded3(MeanOf(DairyMembers(i)))

\* a BMI bucket reported with more than three decimals
C22_UnroundedBmiSeen ==
    /\ Returned("fetch_pcb_by_bmi")
    /\ \E i \in DOMAIN Out.values : ~IsRounded3(Out.values[i])

\* the payload of a dashboard request is what the aggregations give on the
\* store as it is once all of them have been invoked
PayloadOfStore ==
    Returned("get_dashboard_data") => Out = DashboardPayload(WStart, WEnd)

\* a step that serves a request leaves the four tables as they were
ServingKeepsStore == (payload = None /\ payload' # None) => store' = store

\* C23: a dashboard request is a pure read: once get_dashboard_data has
\* invoked every aggregation the patients, snapshots, lab tests and studies
\* are unchanged, so the payload is the one the aggregations give on that
\* store and window in whatever order they are invoked.
C23_PureRead == [][ServingKeepsStore]_vars /\ []PayloadOfStore

\* a request served on a store with snapshots, lab tests and studies
C23_Witness ==
    /\ Returned("get_dashboard_data")
    /\ features # <<>> /\ labtests # <<>> /\ studies # <<>>
    /\ Out.summary.total_patients = 2
    /\ Out.research # <<>>

-----------------------------------------------------------------------------
(* The lab test workflow.                                                  *)

\* the step is a call of fn that returns
Calling(fn) == payload = None /\ payload' # None /\ payload'[1].fn = fn

\* the test the call names, before the call and after it
Named == labtests[payload'[1].args[1]]

NamedAfter == labtests'[payload'[1].args[1]]

\* the test has results
Populated(t) == t.pcb_results # None /\ t.pcb_results # <<>>

\* the step dispatches a test that an earlier dispatch has populated
DispatchesAgain ==
    /\ Calling("dispatch_lab_test")
    /\ payload'[1].args[1] \in DOMAIN labtests
    /\ Populated(Named)

\* C24: a dispatch of a test whose results an earlier dispatch has populated
\* returns True and leaves the test's pcb_results, risk, severity, status and
\* result_date as they were
C24_DispatchOnce ==
    [][DispatchesAgain =>
          /\ payload'[1].out = TRUE
          /\ NamedAfter.pcb_results = Named.pcb_results
          /\ NamedAfter.risk = Named.risk
          /\ NamedAfter.severity = Named.severity
          /\ NamedAfter.status = Named.status
          /\ NamedAfter.result_date = Named.result_date]_vars

\* C24: what holds instead: the dispatch of a test that has been released to
\* the physician leaves the table of lab tests as it was
C24_DispatchAfterRelease ==
    [][(DispatchesAgain /\ Named.is_released) => labtests' = labtests]_vars

\* a dispatched test that was not released, at hand for a second dispatch
C24_DispatchedUnreleasedSeen ==
    \E i \in DOMAIN labtests : Populated(labtests[i]) /\ ~labtests[i].is_released

\* C25: every lab test whose is_released flag is true has status "released"
\* and a non-empty result list
C25_ReleasedHasResults ==
    \A i \in DOMAIN labtests :
        labtests[i].is_released =>
            labtests[i].status = "released" /\ Populated(labtests[i])

\* C25: what holds instead: the status "released", which dispatch_lab_test
\* sets, goes with a non-empty result list
C25_StatusReleasedHasResults ==
    \A i \in DOMAIN labtests :
        labtests[i].status = "released" <=> Populated(labtests[i])

\* release_lab_test has returned True on a test that is still pending
C25_PendingReleasedSeen ==
    /\ Returned("release_lab_test")
    /\ Out = TRUE
    /\ labtests[Args[1]].status = "pending"
    /\ labtests[Args[1]].is_released

\* release_lab_test has been called on the test: no other operation sets
\* the flag, and none clears it once set
ReleaseCalled(id) == labtests[id].is_released

\* C26: the lab cards of the patient profile and the physician's "Lab test
\* released" items show only tests on which release_lab_test has been called
C26_VisibleOnlyAfterRelease ==
    /\ (Returned("lab_cards") /\ Out.test # None) => ReleaseCalled(Out.test[1])
    /\ Returned("fetch_recent_activities") =>
           \A i \in DOMAIN Out : ReleaseCalled(Out[i].test)

\* C26: what holds instead: the tests shown are those dispatch_lab_test has
\* given the status "released"
C26_VisibleWhenDispatched ==
    /\ (Returned("lab_cards") /\ Out.test # None) =>
           labtests[Out.test[1]].status = "released"
    /\ Returned("fetch_recent_activities") =>
           /\ \A i \in DOMAIN Out : labtests[Out[i].test].status = "released"
           /\ \A t \in DOMAIN labtests :
                  (labtests[t].physician_id = Args[1] /\ labtests[t].status = "released")
                      => \E i \in DOMAIN Out : Out[i].test = t

\* a test dispatched and not released is among a physician's items
C26_UnreleasedItemSeen ==
    /\ Returned("fetch_recent_activities")
    /\ \E i \in DOMAIN Out : ~ReleaseCalled(Out[i].test)

\* the results of a test dispatched and not released are on a profile
C26_UnreleasedCardsSeen ==
    /\ Returned("lab_cards")
    /\ Out.test # None
    /\ ~ReleaseCalled(Out.test[1])
    /\ Out.rows # <<>>

-----------------------------------------------------------------------------
(* The lab results page.                                                   *)

\* C27: in the records of get_lab_results_page every test of status
\* "released" comes before every test of status "ready"
C27_ReleasedBeforeReady ==
    Returned("get_lab_results_page") =>
        \A i, j \in DOMAIN Out.records :
            (Out.records[i].status = "Released" /\ Out.records[j].status = "Ready")
                => i < j

\* C27: what holds instead: every ready test comes before every released
\* one, and the page lists each ready or released test once
C27_ReadyBeforeReleased ==
    Returned("get_lab_results_page") =>
        /\ \A i, j \in DOMAIN Out.records :
               (Out.records[i].status = "Ready" /\ Out.records[j].status = "Released")
                   => i < j
        /\ Len(Out.records) = Len(SelectReadyTests)
        /\ \A i \in DOMAIN SelectReadyTests :
               \E j \in DOMAIN Out.records : Out.records[j].id = SelectReadyTests[i].id

\* a page of a ready test followed by a released one
C27_MixedPageSeen ==
    /\ Returned("get_lab_results_page")
    /\ Len(Out.records) = 2
    /\ Out.records[1].status = "Ready"
    /\ Out.records[2].status = "Released"

-----------------------------------------------------------------------------
(* The risk distribution counts every snapshot.                            *)

\* the snapshot carries no prediction for the contaminant at index i
NoPrediction(mf, i) ==
    \/ mf.output_predictions = None
    \/ PCB_KEYS[i] \notin DOMAIN mf.output_predictions[1]

\* C28: for each contaminant the three counts of
\* fetch_risk_distribution_by_pcb add up to the number of snapshots in range,
\* every snapshot of a patient counted, and a snapshot without a prediction
\* for the contaminant is counted in risk_low
C28_CountsEverySnapshot ==
    Returned("fetch_risk_distribution_by_pcb") =>
        LET rows == InWindow
        IN  \A i \in DOMAIN PCB_KEYS :
                /\ Out.risk_low[i] + Out.risk_med[i] + Out.risk_high[i] = Len(rows)
                /\ Out.risk_low[i] >=
                       Cardinality({j \in DOMAIN rows : NoPrediction(rows[j], i)})
                /\ Out.risk_med[i] + Out.risk_high[i] <=
                       Cardinality({j \in DOMAIN rows : ~NoPrediction(rows[j], i)})

\* the window holds the snapshot of a registration and an assessed one
C28_Witness ==
    /\ Returned("fetch_risk_distribution_by_pcb")
    /\ Len(InWindow) = 2
    /\ InWindow[2].output_predictions = None
    /\ InWindow[2].input_features = RegistrationFeatures(24)
    /\ Out.risk_low[1] = 1
    /\ Out.risk_med[1] + Out.risk_high[1] = 1

\* the window holds two snapshots of one patient, and both are counted
C28_TwoOfOnePatientSeen ==
    /\ Returned("fetch_risk_distribution_by_pcb")
    /\ Len(InWindow) = 2
    /\ InWindow[1].patient_id = InWindow[2].patient_id
    /\ Out.risk_low[1] + Out.risk_med[1] + Out.risk_high[1] = 2

-----------------------------------------------------------------------------
(* The smoking comparison and the smoking codes of the profile.            *)

\* the snapshots of the window whose smoking code the profile shows as status
WithStatus(status) ==
    SelectSeq(InWindow, LAMBDA mf : SmokingStatus(mf.input_features) = status)

\* every snapshot of the window has code 1 or code 5
NeverOrDuring ==
    \A j \in DOMAIN InWindow :
        SmokingStatus(InWindow[j].input_features)
            \in {"Never smoked regularly", "Smoked during pregnancy"}

\* C30: over snapshots of smoking code 1 ("Never smoked regularly") and code 5
\* ("Smoked during pregnancy"), fetch_smoking_comparison gives under
\* "Non-smokers" the mean load of the snapshots of code 1 and under "Smokers"
\* the mean load of the snapshots of code 5
C30_SmokingCodes ==
    (Returned("fetch_smoking_comparison") /\ NeverOrDuring) =>
        /\ Out.labels = <<"Non-smokers", "Smokers">>
        /\ Out.values[1] = MeanOf(LoadsWhere(WithStatus("Never smoked regularly"),
                                             LAMBDA mf : TRUE))
        /\ Out.values[2] = MeanOf(LoadsWhere(WithStatus("Smoked during pregnancy"),
                                             LAMBDA mf : TRUE))

\* C30: what holds instead: "Smokers" is the mean load of the snapshots of
\* code 1, "Non-smokers" that of every other snapshot
C30_CodeOneIsSmoker ==
    Returned("fetch_smoking_comparison") =>
        /\ Out.labels = <<"Non-smokers", "Smokers">>
        /\ Out.values[2] = MeanOf(LoadsWhere(WithStatus("Never smoked regularly"),
                                             LAMBDA mf : TRUE))
        /\ Out.values[1] = MeanOf(LoadsWhere(InWindow, LAMBDA mf :
                               SmokingStatus(mf.input_features) # "Never smoked regularly"))

\* a snapshot of code 1 and one of code 5 have been compared, their loads
\* different
C30_BothCodesSeen ==
    /\ Returned("fetch_smoking_comparison")
    /\ NeverOrDuring
    /\ Len(WithStatus("Never smoked regularly")) = 1
    /\ Len(WithStatus("Smoked during pregnancy")) = 1
    /\ Out.values[1] # Out.values[2]

-----------------------------------------------------------------------------
(* The summary of the data clerk's patient records.                        *)

\* the number of records of the page with the badge
Badges(status) ==
    Cardinality({i \in DOMAIN Out.records : Out.records[i].status = status})

\* the summary numbers partition the records, each the count of a badge
SummaryPartitions ==
    /\ Out.summary[1].number = Len(patients)
    /\ Out.summary[2].number + Out.summary[3].number + Out.summary[4].number
           = Out.summary[1].number
    /\ Out.summary[2].number = Badges("Incomplete")
    /\ Out.summary[3].number = Badges("Needs Update")
    /\ Out.summary[4].number = Badges("Complete")

\* C29: in get_data_clerk_patients_page "Incomplete Records" + "Requires
\* Update" + "Complete Records" = "Total Patients", and each of the three is
\* the number of records whose badge is Incomplete, Needs Update, Complete
C29_SummaryPartitions ==
    Returned("get_data_clerk_patients_page") => SummaryPartitions

\* every record marked complete has a gestational age and a due date
CompleteAreDated ==
    \A i \in DOMAIN patients :
        patients[i].is_complete =>
            patients[i].gestational_age # None /\ patients[i].due_date # None

\* C29: what holds instead: the summary partitions the records when every
\* record marked complete has a gestational age and a due date, as the
\* records of insert_new_patient have
C29_PartitionsWhenDated ==
    (Returned("get_data_clerk_patients_page") /\ CompleteAreDated)
        => SummaryPartitions

\* a record marked complete, without gestational age and without risk, is
\* counted as incomplete and as requiring update
C29_CountedTwiceSeen ==
    /\ Returned("get_data_clerk_patients_page")
    /\ Len(patients) = 1
    /\ Out.records[1].status = "Incomplete"
    /\ Out.summary[2].number = 1
    /\ Out.summary[3].number = 1

\* a page of dated records of every badge
C29_EveryBadgeSeen ==
    /\ Returned("get_data_clerk_patients_page")
    /\ CompleteAreDated
    /\ Badges("Incomplete") = 1
    /\ Badges("Needs Update") = 1
    /\ Badges("Complete") = 1
====
